---------------------------- MODULE Spec2Model ----------------------------
(***************************************************************************)
(* Persona-driven document intelligence ("Challenge 1b solution"):         *)
(* SectionExtractor, PersonaAnalyzer and RelevanceRanker, modelled as      *)
(* state machines over character strings and exact rationals.              *)
(*                                                                         *)
(* Strings are TLA+ strings handled character by character (Len, SubSeq,   *)
(* \o).  The input alphabet is ASCII; the two non-ASCII bullet characters  *)
(* of the bullet pattern are written "@" (U+2022) and "~" (U+00B7), which  *)
(* occur nowhere else.                                                     *)
(*                                                                         *)
(* Scores are exact rationals [n, d] in lowest terms (d > 0).              *)
(***************************************************************************)
EXTENDS Integers, Sequences, FiniteSets, TLC

VARIABLES
    pc,               \* position of the driver of the operation under check
    persona,          \* persona text given to create_persona_profile
    job_task,         \* job text
    hash_seed,        \* the process's string-hash seed (fixes set iteration order)
    persona_profile,  \* result of create_persona_profile (NoProfile before)
    doc_content,      \* doc_content handed to extract_sections
    extracted,        \* result of extract_sections
    dedup_in,         \* list handed to _deduplicate_sections
    deduped,          \* results of its successive applications
    sections,         \* rank_sections' argument, mutated in place by it
    oracle,           \* outputs of the embedding / TF-IDF collaborators
    ranked,           \* results of the successive rank_sections calls
    signals,          \* the four signal lists of the last rank_sections call
    raised,           \* the exception that left the last call (None if none)
    calls,            \* create_persona_profile calls so far: hash seed and result
    analyzer,         \* the PersonaAnalyzer instance: its two tables
    document_list,    \* process_collection: the documents of the input spec
    processed_docs,   \* process_collection's locals of these names
    section_candidates,
    ranked_sections,
    top_sections,
    output_data,      \* the output record (None before it is built)
    section,          \* parent section handed to extract_subsections
    subsection_candidates,  \* extract_subsections' local of that name
    subsections,      \* result of extract_subsections
    weights_in,       \* arguments of _calculate_context_weights
    weights,          \* result of _calculate_context_weights
    tool,             \* the batch loop that runs: main, batch_process, process_pdfs_with_ml
    entries,          \* the directory listing it iterates over
    next_entry,       \* index of the entry the loop takes next
    output_files,     \* the output files written so far, by entry name
    error_log,        \* the error lines logged or printed by the except branches
    propagated,       \* the exception that left the loop (None if none)
    chunk_args,       \* chunk_text's arguments: text, chunk_size, overlap
    start,            \* chunk_text's local of that name
    chunks            \* chunk_text's list of chunks so far

vars == <<pc, persona, job_task, hash_seed, persona_profile, doc_content,
          extracted, dedup_in, deduped, sections, oracle, ranked, signals,
          raised, calls, analyzer, document_list, processed_docs,
          section_candidates, ranked_sections, top_sections, output_data,
          section, subsection_candidates, subsections, weights_in, weights,
          tool, entries, next_entry, output_files, error_log, propagated,
          chunk_args, start, chunks>>

-----------------------------------------------------------------------------
(* Python str primitives                                                   *)

Min(a, b) == IF a <= b THEN a ELSE b
Max(a, b) == IF a >= b THEN a ELSE b

Whitespace == {" ", "\n", "\t", "\r"}
Digits == {"0", "1", "2", "3", "4", "5", "6", "7", "8", "9"}
UpperChars == {"A", "B", "C", "D", "E", "F", "G", "H", "I", "J", "K", "L", "M",
               "N", "O", "P", "Q", "R", "S", "T", "U", "V", "W", "X", "Y", "Z"}
LowerChars == {"a", "b", "c", "d", "e", "f", "g", "h", "i", "j", "k", "l", "m",
               "n", "o", "p", "q", "r", "s", "t", "u", "v", "w", "x", "y", "z"}
WordChars == UpperChars \cup LowerChars \cup Digits \cup {"_"}

\* s[i], 1-based
Ch(s, i) == SubSeq(s, i, i)

LowerOf ==
    [A |-> "a", B |-> "b", C |-> "c", D |-> "d", E |-> "e", F |-> "f", G |-> "g",
     H |-> "h", I |-> "i", J |-> "j", K |-> "k", L |-> "l", M |-> "m", N |-> "n",
     O |-> "o", P |-> "p", Q |-> "q", R |-> "r", S |-> "s", T |-> "t", U |-> "u",
     V |-> "v", W |-> "w", X |-> "x", Y |-> "y", Z |-> "z"]

LowerChar(c) == IF c \in UpperChars THEN LowerOf[c] ELSE c

\* str.lower()
RECURSIVE Lower(_)
Lower(s) ==
    IF Len(s) = 0 THEN ""
    ELSE IF Len(s) = 1 THEN LowerChar(s)
    ELSE LET m == Len(s) \div 2
         IN  Lower(SubSeq(s, 1, m)) \o Lower(SubSeq(s, m + 1, Len(s)))

\* sub in s
Contains(s, sub) ==
    \E i \in 1..(Len(s) - Len(sub) + 1) : SubSeq(s, i, i + Len(sub) - 1) = sub

\* any(w in s for w in ws)
ContainsAny(s, ws) == \E w \in ws : Contains(s, w)

\* length of the maximal run of characters of class `cls' starting at s[i]
RunLen(s, i, cls) ==
    IF i > Len(s) THEN 0
    ELSE LET stop == CHOOSE j \in i..(Len(s) + 1) :
                        /\ j > Len(s) \/ Ch(s, j) \notin cls
                        /\ \A k \in i..(j - 1) : Ch(s, k) \in cls
         IN  stop - i

\* length of the maximal run of characters of class `cls' ending at s[i]
RunLenBack(s, i, cls) ==
    IF i < 1 THEN 0
    ELSE LET n == CHOOSE m \in 0..i :
                     /\ m = i \/ Ch(s, i - m) \notin cls
                     /\ \A k \in (i - m + 1)..i : Ch(s, k) \in cls
         IN  n

\* str.strip()
Strip(s) ==
    LET lead == RunLen(s, 1, Whitespace)
    IN  IF lead = Len(s) THEN ""
        ELSE SubSeq(s, lead + 1, Len(s) - RunLenBack(s, Len(s), Whitespace))

\* the pieces of s[lo..hi] between the positions `cuts' within lo..hi (so n
\* cuts give n + 1 pieces, some possibly empty)
RECURSIVE SplitRange(_, _, _, _)
SplitRange(s, cuts, lo, hi) ==
    IF cuts = {} THEN <<SubSeq(s, lo, hi)>>
    ELSE IF lo = hi THEN <<"", "">>
    ELSE LET mid == (lo + hi) \div 2
             left == SplitRange(s, {c \in cuts : c <= mid}, lo, mid)
             right == SplitRange(s, {c \in cuts : c > mid}, mid + 1, hi)
         IN  SubSeq(left, 1, Len(left) - 1)
               \o <<left[Len(left)] \o right[1]>>
               \o SubSeq(right, 2, Len(right))

\* the pieces of s between its characters of class `seps'
SplitAt(s, seps) ==
    SplitRange(s, {i \in 1..Len(s) : Ch(s, i) \in seps}, 1, Len(s))

\* s.split('\n')
SplitLines(s) == SplitAt(s, {"\n"})

SelectNonEmpty(seq) == SelectSeq(seq, LAMBDA x : x # "")

\* s.split(): maximal runs of non-whitespace characters
SplitWords(s) == SelectNonEmpty(SplitAt(s, Whitespace))

\* sep.join(parts)
RECURSIVE Join(_, _)
Join(parts, sep) ==
    IF Len(parts) = 0 THEN ""
    ELSE IF Len(parts) = 1 THEN parts[1]
    ELSE LET m == Len(parts) \div 2
         IN  Join(SubSeq(parts, 1, m), sep) \o sep
                 \o Join(SubSeq(parts, m + 1, Len(parts)), sep)

Range(seq) == {seq[i] : i \in 1..Len(seq)}

\* s * n
RECURSIVE Repeat(_, _)
Repeat(s, n) ==
    IF n <= 0 THEN ""
    ELSE IF n = 1 THEN s
    ELSE Repeat(s, n \div 2) \o Repeat(s, n - n \div 2)

-----------------------------------------------------------------------------
(* Exact rationals                                                         *)

RECURSIVE Gcd(_, _)
Gcd(a, b) == IF b = 0 THEN a ELSE Gcd(b, a % b)

Abs(x) == IF x < 0 THEN -x ELSE x

Rat(n, d) ==
    LET g == Gcd(Abs(n), d)
    IN  [n |-> n \div g, d |-> d \div g]

RZero == [n |-> 0, d |-> 1]
ROne == [n |-> 1, d |-> 1]

RAdd(a, b) ==
    LET g == Gcd(a.d, b.d)
    IN  Rat(a.n * (b.d \div g) + b.n * (a.d \div g), a.d * (b.d \div g))

\* cross-reduced before multiplying
RMul(a, b) ==
    LET g1 == Gcd(Abs(a.n), b.d)
        g2 == Gcd(Abs(b.n), a.d)
    IN  [n |-> (a.n \div g1) * (b.n \div g2), d |-> (a.d \div g2) * (b.d \div g1)]

RDiv(a, b) == RMul(a, [n |-> b.d, d |-> b.n])

\* a < b for two non-negative fractions n/d given as pairs, without forming
\* cross products (continued-fraction comparison)
RECURSIVE FracLess(_, _, _, _)
FracLess(an, ad, bn, bd) ==
    LET qa == an \div ad
        qb == bn \div bd
        ra == an % ad
        rb == bn % bd
    IN  IF qa # qb THEN qa < qb
        ELSE IF rb = 0 THEN FALSE
        ELSE IF ra = 0 THEN TRUE
        ELSE FracLess(bd, rb, ad, ra)

RLess(a, b) ==
    IF a.n < 0 /\ b.n >= 0 THEN TRUE
    ELSE IF a.n >= 0 /\ b.n < 0 THEN FALSE
    ELSE IF a.n >= 0 THEN FracLess(a.n, a.d, b.n, b.d)
    ELSE FracLess(-b.n, b.d, -a.n, a.d)

RLeq(a, b) == ~RLess(b, a)

RMin(a, b) == IF RLess(b, a) THEN b ELSE a

-----------------------------------------------------------------------------
(* Python values                                                           *)

None == <<>>
Some(x) == <<x>>

\* Number of string-hash seeds modelled.  The iteration order of a Python
\* set of strings depends on the process's hash seed, so list(set(xs)) is
\* one fixed order per process, not one order for all processes.
HashSeeds == 2

\* every string the analyzer ever puts into a set, in a reference order
SetStrings ==
    <<"create", "analyze", "plan", "manage", "prepare",
      "methodology", "analysis", "findings", "literature",
      "concepts", "examples", "explanations", "practice",
      "logistics", "schedule", "activities", "recommendations",
      "specifications", "quality", "delivery", "requirements",
      "process", "compliance", "standards", "best-practices",
      "information", "details",
      "instructions", "steps", "tools", "templates", "options",
      "data", "comparison", "insights", "trends",
      "ingredients", "materials">>

StrIndex(s) == CHOOSE i \in 1..Len(SetStrings) : SetStrings[i] = s

\* position of s in the iteration order of a set under hash seed `seed'
\* (41 is a prime above Len(SetStrings): distinct strings get distinct keys)
HashKey(s, seed) == (StrIndex(s) * (8 * seed + 1)) % 41

\* list(set(xs)) under hash seed `seed'
ListOfSet(S, seed) ==
    [k \in 1..Cardinality(S) |->
        CHOOSE x \in S :
            Cardinality({y \in S : HashKey(y, seed) < HashKey(x, seed)}) = k - 1]

\* int(s) for a string of decimal digits
DigitVal(c) ==
    CASE c = "0" -> 0 [] c = "1" -> 1 [] c = "2" -> 2 [] c = "3" -> 3
      [] c = "4" -> 4 [] c = "5" -> 5 [] c = "6" -> 6 [] c = "7" -> 7
      [] c = "8" -> 8 [] c = "9" -> 9

RECURSIVE ParseInt(_)
ParseInt(s) ==
    IF Len(s) = 0 THEN 0
    ELSE ParseInt(SubSeq(s, 1, Len(s) - 1)) * 10 + DigitVal(Ch(s, Len(s)))

-----------------------------------------------------------------------------
(* PersonaAnalyzer                                                         *)

\* keys of self.persona_keywords, in insertion order
PersonaTypes ==
    <<"researcher", "student", "analyst", "manager", "planner", "contractor",
      "professional">>

persona_keywords(t) ==
    CASE t = "researcher" ->
           <<"research", "methodology", "analysis", "study", "findings",
             "literature", "academic", "publication", "data", "experiment">>
      [] t = "student" ->
           <<"learn", "study", "exam", "concept", "understanding", "education",
             "knowledge", "practice", "tutorial", "explanation">>
      [] t = "analyst" ->
           <<"analysis", "trend", "metrics", "performance", "evaluation",
             "comparison", "insight", "report", "assessment", "review">>
      [] t = "manager" ->
           <<"strategy", "planning", "coordination", "team", "leadership",
             "decision", "execution", "oversight", "process", "management">>
      [] t = "planner" ->
           <<"plan", "schedule", "organize", "coordinate", "timeline",
             "logistics", "arrangement", "preparation", "itinerary", "booking">>
      [] t = "contractor" ->
           <<"service", "delivery", "quality", "specification", "requirement",
             "standard", "compliance", "execution", "performance", "contract">>
      [] t = "professional" ->
           <<"expertise", "skill", "experience", "competency", "qualification",
             "practice", "standard", "protocol", "procedure", "guideline">>
      [] OTHER -> <<>>

\* keys of self.job_actions, in insertion order
ActionTypes == <<"create", "analyze", "plan", "manage", "prepare">>

job_actions(a) ==
    CASE a = "create" ->
           <<"design", "build", "develop", "make", "construct", "generate",
             "produce", "establish">>
      [] a = "analyze" ->
           <<"examine", "evaluate", "assess", "review", "investigate", "study",
             "research", "compare">>
      [] a = "plan" ->
           <<"organize", "schedule", "prepare", "arrange", "coordinate",
             "design", "structure", "outline">>
      [] a = "manage" ->
           <<"oversee", "supervise", "control", "direct", "handle",
             "administer", "govern", "lead">>
      [] a = "prepare" ->
           <<"ready", "setup", "arrange", "organize", "compile", "assemble",
             "gather", "collect">>

\* a plausible slip: the slice left out, every keyword of the type tried
AllKeywords(seq) == seq

\* keywords[:3]
FirstThree(seq) == SubSeq(seq, 1, Min(3, Len(seq)))

\* the persona type at position >= i of the table that matches, or ""
RECURSIVE FirstPersonaMatch(_, _)
FirstPersonaMatch(p, i) ==
    IF i > Len(PersonaTypes) THEN ""
    ELSE LET t == PersonaTypes[i]
         IN  IF Contains(p, t)
                  \/ ContainsAny(p, Range(FirstThree(persona_keywords(t))))
             THEN t
             ELSE FirstPersonaMatch(p, i + 1)

_identify_persona_type(p) ==
    LET hit == FirstPersonaMatch(p, 1)
    IN  IF hit # "" THEN hit
        ELSE IF ContainsAny(p, {"hr", "human", "resource"}) THEN "professional"
        ELSE IF ContainsAny(p, {"food", "chef", "cook", "menu"}) THEN "contractor"
        ELSE IF ContainsAny(p, {"travel", "trip", "tour"}) THEN "planner"
        ELSE "professional"

\* the `actions' list before list(set(...)), duplicates included
JobActionsRaw(task) ==
    SelectSeq(ActionTypes,
              LAMBDA a : Contains(task, a)
                           \/ ContainsAny(task, Range(job_actions(a))))
      \o (IF ContainsAny(task, {"menu", "food", "recipe"})
          THEN <<"prepare">> ELSE <<>>)
      \o (IF ContainsAny(task, {"form", "document"})
          THEN <<"create">> ELSE <<>>)
      \o (IF ContainsAny(task, {"trip", "travel", "itinerary"})
          THEN <<"plan">> ELSE <<>>)

\* a plausible slip: no default when nothing matched
_extract_job_actions_no_default(task, seed) ==
    ListOfSet(Range(JobActionsRaw(task)), seed)

_extract_job_actions(task, seed) ==
    LET actions == JobActionsRaw(task)
    IN  IF Len(actions) > 0 THEN ListOfSet(Range(actions), seed)
        ELSE <<"analyze">>

_get_domain_keywords(persona_type, task) ==
    persona_keywords(persona_type)
      \o (IF ContainsAny(task, {"menu", "food", "recipe", "vegetarian", "buffet"})
          THEN <<"recipe", "ingredient", "cooking", "nutrition", "dietary">>
          ELSE <<>>)
      \o (IF ContainsAny(task, {"travel", "trip", "vacation", "tourist"})
          THEN <<"destination", "activity", "accommodation", "transportation",
                 "attraction">>
          ELSE <<>>)
      \o (IF ContainsAny(task, {"business", "corporate", "company", "professional"})
          THEN <<"business", "corporate", "professional", "service", "quality">>
          ELSE <<>>)
      \o (IF ContainsAny(task, {"form", "hr", "employee", "onboarding"})
          THEN <<"form", "employee", "process", "compliance", "documentation">>
          ELSE <<>>)

\* re.search(r'(\d+)\s*(alt1|alt2|...)', task): <<group(1), group(2)>> of the
\* leftmost match, or None.  From a start position the match is forced:
\* \d+ takes the whole digit run (a shorter one is followed by a digit),
\* \s* the whole whitespace run (the alternatives start with letters).
StartsWith(s, i, w) ==
    i + Len(w) - 1 <= Len(s) /\ SubSeq(s, i, i + Len(w) - 1) = w

\* a plausible slip: (\d) for (\d+), one digit captured instead of the run
DigitRunOne(task, i) == Min(1, RunLen(task, i, Digits))

\* the characters (\d+) takes from position i
DigitRun(task, i) == RunLen(task, i, Digits)

NumberNounAt(task, i, nouns) ==
    LET r == DigitRun(task, i)
        w == RunLen(task, i + r, Whitespace)
    IN  /\ r >= 1
        /\ \E k \in 1..Len(nouns) : StartsWith(task, i + r + w, nouns[k])

NumberNounSearch(task, nouns) ==
    LET starts == {i \in 1..Len(task) : NumberNounAt(task, i, nouns)}
    IN  IF starts = {} THEN None
        ELSE LET i == CHOOSE x \in starts : \A y \in starts : x <= y
                 r == DigitRun(task, i)
                 w == RunLen(task, i + r, Whitespace)
                 hits == {k \in 1..Len(nouns) :
                             StartsWith(task, i + r + w, nouns[k])}
                 k == CHOOSE x \in hits : \A y \in hits : x <= y
             IN  Some(<<SubSeq(task, i, i + r - 1), nouns[k]>>)

dietary_terms ==
    <<"vegetarian", "vegan", "gluten-free", "halal", "kosher", "dairy-free">>

_extract_requirements(task) ==
    LET size_match ==
            NumberNounSearch(task,
                <<"people", "person", "friend", "guest", "individual">>)
        duration_match ==
            NumberNounSearch(task, <<"day", "week", "hour", "month">>)
    IN  [dietary |-> SelectSeq(dietary_terms, LAMBDA t : Contains(task, t)),
         size |-> IF size_match # None
                  THEN Some(ParseInt(size_match[1][1])) ELSE None,
         duration |-> IF duration_match # None
                      THEN Some(duration_match[1][1] \o " "
                                  \o duration_match[1][2] \o "s")
                      ELSE None,
         special_needs |->
             (IF Contains(task, "corporate") THEN <<"professional">> ELSE <<>>)
               \o (IF Contains(task, "buffet") THEN <<"buffet-style">> ELSE <<>>)
               \o (IF Contains(task, "college") THEN <<"budget-friendly">>
                   ELSE <<>>)]

priority_map(t) ==
    CASE t = "researcher" -> <<"methodology", "analysis", "findings", "literature">>
      [] t = "student" -> <<"concepts", "examples", "explanations", "practice">>
      [] t = "planner" -> <<"logistics", "schedule", "activities", "recommendations">>
      [] t = "contractor" ->
           <<"specifications", "quality", "delivery", "requirements">>
      [] t = "professional" ->
           <<"process", "compliance", "standards", "best-practices">>
      [] OTHER -> <<"information", "details">>

action_priorities(a) ==
    CASE a = "create" -> <<"instructions", "steps", "tools", "templates">>
      [] a = "plan" -> <<"options", "schedule", "logistics", "recommendations">>
      [] a = "analyze" -> <<"data", "comparison", "insights", "trends">>
      [] a = "prepare" -> <<"ingredients", "materials", "steps", "requirements">>
      [] OTHER -> <<>>

_identify_priority_areas(persona_type, actions, seed) ==
    ListOfSet(Range(priority_map(persona_type))
                \cup UNION {Range(action_priorities(actions[i])) :
                              i \in 1..Len(actions)},
              seed)

\* weights[key] += tenths / 10
Bump(w, key, tenths) == [w EXCEPT ![key] = RAdd(@, Rat(tenths, 10))]

ContentTypes == <<"instructional", "descriptive", "analytical", "reference">>

BaselineWeights ==
    [instructional |-> Rat(3, 10), descriptive |-> Rat(3, 10),
     analytical |-> Rat(2, 10), reference |-> Rat(2, 10)]

\* the weights after the persona and action adjustments, before normalizing
AdjustedWeights(persona_type, actions) ==
    LET w0 == BaselineWeights
        w1 == IF persona_type \in {"student", "researcher"}
              THEN Bump(Bump(w0, "analytical", 2), "reference", 1)
              ELSE IF persona_type \in {"planner", "contractor"}
              THEN Bump(Bump(w0, "instructional", 2), "descriptive", 1)
              ELSE w0
        w2 == IF "create" \in Range(actions) \/ "prepare" \in Range(actions)
              THEN Bump(w1, "instructional", 2) ELSE w1
        w3 == IF "analyze" \in Range(actions)
              THEN Bump(w2, "analytical", 2) ELSE w2
    IN  IF "plan" \in Range(actions) THEN Bump(w3, "descriptive", 2) ELSE w3

\* sum(weights.values())
SumWeights(w) ==
    RAdd(RAdd(RAdd(w.instructional, w.descriptive), w.analytical), w.reference)

_calculate_context_weights(persona_type, actions) ==
    LET w == AdjustedWeights(persona_type, actions)
        total_weight == SumWeights(w)
    IN  [k \in DOMAIN w |-> RDiv(w[k], total_weight)]

-----------------------------------------------------------------------------
(* The same computation in the arithmetic the interpreter does it in: IEEE *)
(* 754 binary64 with round-to-nearest-even.  A positive double is          *)
(* [m, e], standing for m * 2^e with 2^52 <= m < 2^53; m is held as two    *)
(* limbs [hi, lo] standing for hi * 2^30 + lo, so that no intermediate     *)
(* leaves the 32-bit integers.                                             *)

LimbBase == 2^30

Big(hi, lo) == [hi |-> hi, lo |-> lo]
BigOne == Big(0, 1)
BigAdd(a, b) ==
    Big(a.hi + b.hi + ((a.lo + b.lo) \div LimbBase), (a.lo + b.lo) % LimbBase)
BigLess(a, b) == a.hi < b.hi \/ (a.hi = b.hi /\ a.lo < b.lo)
\* a - b, for b <= a
BigSub(a, b) ==
    IF a.lo >= b.lo THEN Big(a.hi - b.hi, a.lo - b.lo)
    ELSE Big(a.hi - b.hi - 1, a.lo + LimbBase - b.lo)

\* a * 2^d
RECURSIVE BigShl(_, _)
BigShl(a, d) == IF d = 0 THEN a ELSE BigShl(BigAdd(a, a), d - 1)

\* a / 2^k rounded to the nearest integer, ties to even, for 0 < k < 30
BigShrRound(a, k) ==
    LET unit == 2^k
        q == Big(a.hi \div unit,
                 (a.lo \div unit) + (a.hi % unit) * (LimbBase \div unit))
        rest == a.lo % unit
        half == unit \div 2
    IN  IF rest > half \/ (rest = half /\ q.lo % 2 = 1)
        THEN BigAdd(q, BigOne) ELSE q

\* 2^52 and 2^53
MantissaMin == Big(2^22, 0)
MantissaEnd == Big(2^23, 0)

Double(m, e) == [m |-> m, e |-> e]

\* the double nearest to m * 2^e, for m >= 2^52
RoundToDouble(m, e) ==
    LET k == CHOOSE j \in 0..7 :
                /\ m.hi < 2^(23 + j)
                /\ j = 0 \/ m.hi >= 2^(22 + j)
    IN  IF k = 0 THEN Double(m, e)
        ELSE LET r == BigShrRound(m, k)
             IN  IF r = MantissaEnd THEN Double(MantissaMin, e + k + 1)
                 ELSE Double(r, e + k)

\* x + y
FloatAdd(x, y) ==
    LET big == IF x.e >= y.e THEN x ELSE y
        small == IF x.e >= y.e THEN y ELSE x
    IN  RoundToDouble(BigAdd(BigShl(big.m, big.e - small.e), small.m), small.e)

\* one step of binary long division by the mantissa `by': the state is the
\* quotient so far and the remainder
DivStep(st, by) ==
    LET r2 == BigAdd(st.r, st.r)
        q2 == BigAdd(st.q, st.q)
    IN  IF BigLess(r2, by) THEN [q |-> q2, r |-> r2]
        ELSE [q |-> BigAdd(q2, BigOne), r |-> BigSub(r2, by)]

\* n steps: the first half of them, then the rest from where those end
RECURSIVE DivSteps(_, _, _)
DivSteps(st, by, n) ==
    IF n = 0 THEN st
    ELSE IF n = 1 THEN DivStep(st, by)
    ELSE CHOOSE res \in {DivSteps(mid, by, n - (n \div 2)) :
                            mid \in {DivSteps(st, by, n \div 2)}} : TRUE

\* x / y
FloatDiv(x, y) ==
    LET low == BigLess(x.m, y.m)
        \* the leading quotient bit is 1 once the dividend is at least y.m
        r0 == BigSub(IF low THEN BigAdd(x.m, x.m) ELSE x.m, y.m)
        st == DivSteps([q |-> BigOne, r |-> r0], y.m, 52)
        twice == BigAdd(st.r, st.r)
        up == BigLess(y.m, twice) \/ (twice = y.m /\ st.q.lo % 2 = 1)
        q == IF up THEN BigAdd(st.q, BigOne) ELSE st.q
        e == x.e - y.e - (IF low THEN 53 ELSE 52)
    IN  IF q = MantissaEnd THEN Double(MantissaMin, e + 1) ELSE Double(q, e)

\* x <= y
FloatLeq(x, y) == x.e < y.e \/ (x.e = y.e /\ ~BigLess(y.m, x.m))

\* the literals 0.3, 0.2, 0.1 and 1.0
Float03 == Double(Big(5033164, 858993459), -54)
Float02 == Double(Big(6710886, 429496730), -55)
Float01 == Double(Big(6710886, 429496730), -56)
Float10 == Double(MantissaMin, -52)

FloatBaseline ==
    [instructional |-> Float03, descriptive |-> Float03,
     analytical |-> Float02, reference |-> Float02]

\* weights[key] += amount
FloatBump(w, key, amount) == [w EXCEPT ![key] = FloatAdd(@, amount)]

\* the weights after the persona and action adjustments, before normalizing
FloatAdjusted(persona_type, actions) ==
    LET w0 == FloatBaseline
        w1 == IF persona_type \in {"student", "researcher"}
              THEN FloatBump(FloatBump(w0, "analytical", Float02),
                             "reference", Float01)
              ELSE IF persona_type \in {"planner", "contractor"}
              THEN FloatBump(FloatBump(w0, "instructional", Float02),
                             "descriptive", Float01)
              ELSE w0
        w2 == IF "create" \in Range(actions) \/ "prepare" \in Range(actions)
              THEN FloatBump(w1, "instructional", Float02) ELSE w1
        w3 == IF "analyze" \in Range(actions)
              THEN FloatBump(w2, "analytical", Float02) ELSE w2
    IN  IF "plan" \in Range(actions) THEN FloatBump(w3, "descriptive", Float02)
        ELSE w3

\* sum(weights.values()): the int 0 plus the first value is that value
FloatSum(w) ==
    FloatAdd(FloatAdd(FloatAdd(w.instructional, w.descriptive), w.analytical),
             w.reference)

\* a plausible slip: the weights returned without the normalizing loop
FloatWeightsUnnormalized(persona_type, actions) ==
    FloatAdjusted(persona_type, actions)

\* _calculate_context_weights, as doubles
FloatContextWeights(persona_type, actions) ==
    LET w == FloatAdjusted(persona_type, actions)
        total_weight == FloatSum(w)
    IN  [k \in DOMAIN w |-> FloatDiv(w[k], total_weight)]

create_persona_profile(p, task, seed) ==
    LET persona_lower == Lower(p)
        task_lower == Lower(task)
        persona_type == _identify_persona_type(persona_lower)
        actions == _extract_job_actions(task_lower, seed)
    IN  [persona |-> p,
         persona_type |-> persona_type,
         job_task |-> task,
         job_actions |-> actions,
         domain_keywords |-> _get_domain_keywords(persona_type, task_lower),
         requirements |-> _extract_requirements(task_lower),
         priority_areas |-> _identify_priority_areas(persona_type, actions, seed),
         context_weight |-> _calculate_context_weights(persona_type, actions)]

-----------------------------------------------------------------------------
(* Regular expressions of SectionExtractor                                 *)
(* Each XxxMatchLen(s, i) is the length of the match of the pattern        *)
(* starting at s[i], 0 when there is none.  The patterns used here leave   *)
(* the matcher no choice: every repeated class is followed by a character  *)
(* outside it, so each greedy run is the whole run.                        *)

BulletChars == {"@", "~", "-"}
SentenceEnd == {".", "!", "?"}

\* r'\n\s*\d+\.\s+'
NumberedMatchLen(s, i) ==
    IF i > Len(s) \/ Ch(s, i) # "\n" THEN 0
    ELSE LET a == RunLen(s, i + 1, Whitespace)
             r == RunLen(s, i + 1 + a, Digits)
             dot == i + 1 + a + r
             w == RunLen(s, dot + 1, Whitespace)
         IN  IF r >= 1 /\ dot <= Len(s) /\ Ch(s, dot) = "." /\ w >= 1
             THEN 1 + a + r + 1 + w
             ELSE 0

\* r'\n\s*[@~-]\s+'   (@ is U+2022, ~ is U+00B7)
BulletMatchLen(s, i) ==
    IF i > Len(s) \/ Ch(s, i) # "\n" THEN 0
    ELSE LET a == RunLen(s, i + 1, Whitespace)
             b == i + 1 + a
             w == RunLen(s, b + 1, Whitespace)
         IN  IF b <= Len(s) /\ Ch(s, b) \in BulletChars /\ w >= 1
             THEN 1 + a + 1 + w
             ELSE 0

\* r'[.!?]+\s+'
SentenceMatchLen(s, i) ==
    LET r == RunLen(s, i, SentenceEnd)
        w == RunLen(s, i + r, Whitespace)
    IN  IF r >= 1 /\ w >= 1 THEN r + w ELSE 0

\* the patterns the extractor searches and splits by, and the length of a
\* match of each at position i (0 when there is none)
numbered_pattern == "numbered"
bullet_pattern == "bullet"
sentence_pattern == "sentence"
paragraph_break == "paragraph"

MatchLen(pattern, s, i) ==
    CASE pattern = numbered_pattern -> NumberedMatchLen(s, i)
      [] pattern = bullet_pattern -> BulletMatchLen(s, i)
      [] pattern = sentence_pattern -> SentenceMatchLen(s, i)
      [] pattern = paragraph_break -> IF StartsWith(s, i, "\n\n") THEN 2 ELSE 0

\* re.search(pattern, s) is not None
RegexSearch(pattern, s) == \E i \in 1..Len(s) : MatchLen(pattern, s, i) > 0

\* re.split(pattern, s), scanning from position `from'
RECURSIVE RegexSplitFrom(_, _, _)
RegexSplitFrom(pattern, s, from) ==
    LET starts == {i \in from..Len(s) : MatchLen(pattern, s, i) > 0}
    IN  IF starts = {} THEN <<SubSeq(s, from, Len(s))>>
        ELSE LET i == CHOOSE x \in starts : \A y \in starts : x <= y
             IN  <<SubSeq(s, from, i - 1)>>
                   \o RegexSplitFrom(pattern, s, i + MatchLen(pattern, s, i))

RegexSplit(pattern, s) == RegexSplitFrom(pattern, s, 1)

\* [f(x) for x in seq]
MapStrip(seq) == [i \in 1..Len(seq) |-> Strip(seq[i])]

\* [s.strip() for s in subsections if s.strip()]
StrippedNonEmpty(seq) == SelectNonEmpty(MapStrip(seq))

-----------------------------------------------------------------------------
(* SectionExtractor: subsections                                           *)

min_section_length == 50
max_section_length == 2000
min_subsection_length == 100
max_subsections_per_section == 3

\* Strategy 3's grouping loop over sentences[i..], with `current' the
\* sentences accumulated so far
RECURSIVE GroupSentences(_, _, _)
GroupSentences(sentences, i, current) ==
    IF i > Len(sentences)
    THEN IF Len(current) > 0 THEN <<Join(current, " ")>> ELSE <<>>
    ELSE LET cur == Append(current, sentences[i])
         IN  IF Len(Join(cur, " ")) > 200
             THEN <<Join(cur, " ")>> \o GroupSentences(sentences, i + 1, <<>>)
             ELSE GroupSentences(sentences, i + 1, cur)

\* the fallback split by length; positions are 0-based as in the source
BisectByLength(content) ==
    LET mid_point == Len(content) \div 2
        hits == {i \in mid_point..(Min(Len(content), mid_point + 100) - 1) :
                    Ch(content, i + 1) \in SentenceEnd}
    IN  IF hits = {} THEN <<content>>
        ELSE LET i == CHOOSE x \in hits : \A y \in hits : x <= y
             IN  <<Strip(SubSeq(content, 1, i + 1)),
                   Strip(SubSeq(content, i + 2, Len(content)))>>

\* a plausible slip: the bullet strategy tried before the numbered one
_split_bullets_first(content) ==
    IF RegexSearch(bullet_pattern, content)
    THEN StrippedNonEmpty(RegexSplit(bullet_pattern, content))
    ELSE IF RegexSearch(numbered_pattern, content)
    THEN StrippedNonEmpty(RegexSplit(numbered_pattern, content))
    ELSE LET sentences == RegexSplit(sentence_pattern, content)
         IN  IF Len(sentences) > 10
             THEN GroupSentences(sentences, 1, <<>>)
             ELSE IF Len(content) > max_section_length
             THEN BisectByLength(content)
             ELSE <<content>>

_split_into_subsections(content) ==
    IF RegexSearch(numbered_pattern, content)
    THEN StrippedNonEmpty(RegexSplit(numbered_pattern, content))
    ELSE IF RegexSearch(bullet_pattern, content)
    THEN StrippedNonEmpty(RegexSplit(bullet_pattern, content))
    ELSE LET sentences == RegexSplit(sentence_pattern, content)
         IN  IF Len(sentences) > 10
             THEN GroupSentences(sentences, 1, <<>>)
             ELSE IF Len(content) > max_section_length
             THEN BisectByLength(content)
             ELSE <<content>>

\* sum(amount for x in xs if x.lower() in text)
ScoreHits(xs, text, amount) ==
    RMul(Rat(Cardinality({i \in 1..Len(xs) : Contains(text, Lower(xs[i]))}), 1),
         amount)

_score_subsection_relevance(subsection, persona_context, job) ==
    LET subsection_lower == Lower(subsection)
        requirements == persona_context.requirements
        context_weights == persona_context.context_weight
        keyword_score ==
            ScoreHits(persona_context.domain_keywords, subsection_lower,
                      Rat(1, 10))
        action_score ==
            ScoreHits(persona_context.job_actions, subsection_lower,
                      Rat(15, 100))
        dietary_score ==
            ScoreHits(requirements.dietary, subsection_lower, Rat(2, 10))
        needs_score ==
            ScoreHits(requirements.special_needs, subsection_lower, Rat(1, 10))
        instructional ==
            IF ContainsAny(subsection_lower,
                           {"instructions", "steps", "ingredients", "how to"})
            THEN context_weights.instructional ELSE RZero
        descriptive ==
            IF ContainsAny(subsection_lower,
                           {"description", "features", "details", "includes"})
            THEN context_weights.descriptive ELSE RZero
        \* min(len / 500.0, 1.0) * 0.1
        length_score == Rat(Min(Len(subsection), 500), 5000)
    IN  RAdd(RAdd(RAdd(RAdd(RAdd(RAdd(keyword_score, action_score),
                                 dietary_score), needs_score),
                       instructional), descriptive), length_score)

\* seq without its i-th element
Without(seq, i) == SubSeq(seq, 1, i - 1) \o SubSeq(seq, i + 1, Len(seq))

\* sorted(..., key=..., reverse=True) / list.sort(key=..., reverse=True),
\* with keys[i] the key of seq[i]: a stable sort, so among equal keys the
\* earlier element comes first
RECURSIVE SortDescByKeys(_, _)
SortDescByKeys(seq, keys) ==
    IF Len(seq) = 0 THEN <<>>
    ELSE LET best == CHOOSE i \in 1..Len(seq) :
                        /\ \A j \in 1..Len(seq) : RLeq(keys[j], keys[i])
                        /\ \A j \in 1..(i - 1) : RLess(keys[j], keys[i])
         IN  <<seq[best]>>
               \o SortDescByKeys(Without(seq, best), Without(keys, best))

\* a plausible slip: sorted ascending and then reversed, which puts the
\* later of two equal-scored elements first
SortByScoreAscReversed(seq) ==
    LET rev == [i \in 1..Len(seq) |-> seq[Len(seq) + 1 - i]]
    IN  SortDescByKeys(rev, [i \in 1..Len(rev) |-> rev[i].relevance_score])

\* scored_subsections.sort(key=lambda x: x['relevance_score'], reverse=True)
SortByScoreDesc(seq) ==
    SortDescByKeys(seq, [i \in 1..Len(seq) |-> seq[i].relevance_score])

\* seq[:n]
Take(seq, n) == SubSeq(seq, 1, Min(n, Len(seq)))

\* the scored_subsections list before sorting
ScoredSubsections(sec, candidates, persona_context, job) ==
    LET idxs == SelectSeq([i \in 1..Len(candidates) |-> i],
                          LAMBDA i : Len(Strip(candidates[i]))
                                        >= min_subsection_length)
    IN  [k \in 1..Len(idxs) |->
            [document |-> sec.document,
             content |-> Strip(candidates[idxs[k]]),
             page_number |-> sec.page_number,
             relevance_score |->
                 _score_subsection_relevance(candidates[idxs[k]],
                                             persona_context, job),
             subsection_index |-> idxs[k] - 1]]

\* scored_subsections[:self.max_subsections_per_section]
\* a plausible slip: the slice to the first three left out
TopSubsectionsAll(scored) == scored

\* scored_subsections[:self.max_subsections_per_section]
TopSubsections(scored) == Take(scored, max_subsections_per_section)

extract_subsections(sec, persona_context, job) ==
    LET candidates == _split_into_subsections(sec.content)
        scored == ScoredSubsections(sec, candidates, persona_context, job)
    IN  TopSubsections(SortByScoreDesc(scored))

-----------------------------------------------------------------------------
(* SectionExtractor: sections                                              *)

Letters == UpperChars \cup LowerChars

AllIn(s, from, cls) == \A j \in from..Len(s) : Ch(s, j) \in cls

\* r':?\s*$' at position p: an optional colon, then only whitespace
ColonTail(s, p) ==
    \/ AllIn(s, p, Whitespace)
    \/ p <= Len(s) /\ Ch(s, p) = ":" /\ AllIn(s, p + 1, Whitespace)

\* r'^[A-Z][a-z\s]+:?\s*$'
TitleCasePattern(s) ==
    /\ Len(s) >= 2
    /\ Ch(s, 1) \in UpperChars
    /\ LET r == RunLen(s, 2, LowerChars \cup Whitespace)
       IN  r >= 1 /\ ColonTail(s, 2 + r)

\* r'^[A-Z\s]{3,}:?\s*$'
AllCapsPattern(s) ==
    LET r == RunLen(s, 1, UpperChars \cup Whitespace)
    IN  r >= 3 /\ ColonTail(s, 1 + r)

\* r'^\d+\.\s+[A-Za-z]'
NumberedPattern(s) ==
    LET r == RunLen(s, 1, Digits)
        w == RunLen(s, r + 2, Whitespace)
    IN  /\ r >= 1
        /\ r + 1 <= Len(s) /\ Ch(s, r + 1) = "."
        /\ w >= 1
        /\ r + 2 + w <= Len(s) /\ Ch(s, r + 2 + w) \in Letters

\* r'^[A-Za-z\s]+ - [A-Za-z]'
DashPattern(s) ==
    \E p \in 2..(Len(s) - 3) :
        /\ SubSeq(s, p, p + 2) = " - "
        /\ Ch(s, p + 3) \in Letters
        /\ \A j \in 1..(p - 1) : Ch(s, j) \in Letters \cup Whitespace

_looks_like_header(raw) ==
    LET line == Strip(raw)
    IN  IF Len(line) < 3 \/ Len(line) > 100 THEN FALSE
        ELSE \/ TitleCasePattern(line)
             \/ AllCapsPattern(line)
             \/ NumberedPattern(line)
             \/ DashPattern(line)

\* len(set(words)) < len(words) * 0.3 ; the float product n * 0.3 compares
\* with an integer as the exact 3n/10 does
TooRepetitive(words) == 10 * Cardinality(Range(words)) < 3 * Len(words)

\* a plausible slip: the upper length limit left out
_is_valid_section_no_max(content) ==
    IF content = "" \/ Len(Strip(content)) < min_section_length THEN FALSE
    ELSE ~TooRepetitive(SplitWords(content))

_is_valid_section(content) ==
    IF content = "" \/ Len(Strip(content)) < min_section_length THEN FALSE
    ELSE IF Len(content) > max_section_length THEN FALSE
    ELSE ~TooRepetitive(SplitWords(content))

\* the content_lines of _extract_section_content's second loop, over the
\* lines after lines[section_start]: the loop breaks at the first header-like
\* line reached with more than 3 content lines collected, and a content line
\* is a line that is non-empty once stripped
ContentLines(lines, section_start) ==
    LET stripped == [i \in 1..Len(lines) |-> Strip(lines[i])]
        collected(j) ==
            Cardinality({i \in (section_start + 1)..(j - 1) : stripped[i] # ""})
        breaks == {j \in (section_start + 1)..Len(lines) :
                      _looks_like_header(stripped[j]) /\ collected(j) > 3}
        last == IF breaks = {} THEN Len(lines)
                ELSE (CHOOSE j \in breaks : \A k \in breaks : j <= k) - 1
    IN  SelectNonEmpty(SubSeq(stripped, section_start + 1, last))

_extract_section_content(page_text, section_title) ==
    LET lines == SplitLines(page_text)
        hits == {i \in 1..Len(lines) :
                    Contains(Lower(lines[i]), Lower(section_title))}
    IN  IF hits = {} THEN ""
        ELSE LET section_start == CHOOSE i \in hits : \A j \in hits : i <= j
             IN  Join(ContentLines(lines, section_start), " ")

ImplicitSection(filename, title, content, page_number) ==
    [document |-> filename, title |-> title, content |-> content,
     page_number |-> page_number, type |-> "implicit"]

\* the loop over paragraphs[i..] of _extract_implicit_sections and the
\* final flush; current_title is None or Some(title)
RECURSIVE ImplicitFrom(_, _, _, _, _, _)
ImplicitFrom(paragraphs, i, current_section, current_title, page_number, filename) ==
    LET flush ==
            IF current_title # None /\ current_title[1] # ""
                  /\ Len(current_section) > 0
                  /\ _is_valid_section(Join(current_section, " "))
            THEN <<ImplicitSection(filename, current_title[1],
                                   Join(current_section, " "), page_number)>>
            ELSE <<>>
    IN  IF i > Len(paragraphs) THEN flush
        ELSE LET paragraph == paragraphs[i]
                 first_line == Strip(SplitLines(paragraph)[1])
             IN  IF _looks_like_header(first_line) /\ Len(current_section) > 0
                 THEN flush \o ImplicitFrom(paragraphs, i + 1,
                         IF Len(paragraph) > Len(first_line)
                         THEN <<Strip(SubSeq(paragraph, Len(first_line) + 1,
                                             Len(paragraph)))>>
                         ELSE <<>>,
                         Some(first_line), page_number, filename)
                 ELSE ImplicitFrom(paragraphs, i + 1,
                         Append(current_section, paragraph), current_title,
                         page_number, filename)

_extract_implicit_sections(page_text, page_number, filename) ==
    ImplicitFrom(StrippedNonEmpty(RegexSplit(paragraph_break, page_text)),
                 1, <<>>, None, page_number, filename)

\* the explicit sections of one page, for its header candidates [i..]
RECURSIVE ExplicitFrom(_, _, _)
ExplicitFrom(page, i, filename) ==
    IF i > Len(page.sections) THEN <<>>
    ELSE LET title == page.sections[i].title
             section_content == _extract_section_content(page.text, title)
         IN  (IF _is_valid_section(section_content)
              THEN <<[document |-> filename, title |-> title,
                      content |-> section_content,
                      page_number |-> page.page_number, type |-> "explicit"]>>
              ELSE <<>>)
               \o ExplicitFrom(page, i + 1, filename)

\* the `sections' list after the loop over pages[i..]
RECURSIVE CollectSections(_, _, _)
CollectSections(pages, i, filename) ==
    IF i > Len(pages) THEN <<>>
    ELSE ExplicitFrom(pages[i], 1, filename)
           \o _extract_implicit_sections(pages[i].text, pages[i].page_number,
                                         filename)
           \o CollectSections(pages, i + 1, filename)

\* re.sub(r'\s+', ' ', content.lower().strip()): in a stripped string every
\* maximal whitespace run lies between two words, and each becomes one space
NormalizedContent(content) == Join(SplitWords(Strip(Lower(content))), " ")

\* a plausible slip: removing from the list being iterated, so that the
\* element after a removed duplicate is never examined
RECURSIVE DedupSkipping(_, _, _)
DedupSkipping(secs, i, seen_content) ==
    IF i > Len(secs) THEN <<>>
    ELSE LET normalized == NormalizedContent(secs[i].content)
         IN  IF normalized \notin seen_content
             THEN <<secs[i]>>
                    \o DedupSkipping(secs, i + 1, seen_content \cup {normalized})
             ELSE IF i + 1 <= Len(secs)
             THEN <<secs[i + 1]>> \o DedupSkipping(secs, i + 2, seen_content)
             ELSE <<>>

\* the loop over sections[i..] of _deduplicate_sections
RECURSIVE DedupFrom(_, _, _)
DedupFrom(secs, i, seen_content) ==
    IF i > Len(secs) THEN <<>>
    ELSE LET normalized == NormalizedContent(secs[i].content)
         IN  IF normalized \notin seen_content
             THEN <<secs[i]>>
                    \o DedupFrom(secs, i + 1, seen_content \cup {normalized})
             ELSE DedupFrom(secs, i + 1, seen_content)

\* a plausible slip: a table keyed by the normalized content, in which a
\* later duplicate replaces the earlier one
DedupKeepLast(secs) ==
    LET idxs == SelectSeq([i \in 1..Len(secs) |-> i],
                          LAMBDA i : \A j \in (i + 1)..Len(secs) :
                                        NormalizedContent(secs[j].content)
                                            # NormalizedContent(secs[i].content))
    IN  [k \in 1..Len(idxs) |-> secs[idxs[k]]]

_deduplicate_sections(secs) == DedupFrom(secs, 1, {})

\* sum(0.5 for word in info_words if word in text)
InfoWordScore(text) ==
    Rat(Cardinality({i \in 1..7 :
            Contains(text, <<"how", "what", "where", "when", "why", "include",
                             "contain">>[i])}), 2)

quality_score(sec) ==
    LET content == sec.content
        length == Len(content)
        length_score == IF 200 <= length /\ length <= 1000 THEN 2
                        ELSE IF 100 <= length /\ length <= 1500 THEN 1
                        ELSE 0
        structure_score ==
            IF ContainsAny(content, {":", "1.", "@", "-"}) THEN 1 ELSE 0
    IN  RAdd(Rat(length_score + structure_score, 1),
             InfoWordScore(Lower(content)))

\* a plausible slip: sorted ascending and then reversed, which puts the
\* later of two sections of equal quality first
RankByQualityAscReversed(secs) ==
    LET rev == [i \in 1..Len(secs) |-> secs[Len(secs) + 1 - i]]
    IN  SortDescByKeys(rev, [i \in 1..Len(rev) |-> quality_score(rev[i])])

_rank_sections_by_quality(secs) ==
    SortDescByKeys(secs, [i \in 1..Len(secs) |-> quality_score(secs[i])])

extract_sections(doc, filename) ==
    _rank_sections_by_quality(
        _deduplicate_sections(CollectSections(doc.pages, 1, filename)))

-----------------------------------------------------------------------------
(* DocumentProcessor                                                       *)
(* The PDF library is a collaborator: a pdf is what it returns, [opens,    *)
(* pages], a page [readable, blocks], a block with or without `lines', a   *)
(* line [spans, bbox].  opens = FALSE is fitz.open raising, readable =     *)
(* FALSE is page.get_text raising.                                         *)

LetterOrSpace == Letters \cup Whitespace

\* r'^([A-Z][A-Za-z\s]{2,50}):?\s*$'
TitleCaseHeader(s) ==
    /\ Len(s) >= 1
    /\ Ch(s, 1) \in UpperChars
    /\ LET r == RunLen(s, 2, LetterOrSpace)
       IN  r >= 2 /\ r <= 50 /\ ColonTail(s, 2 + r)

\* r'^([A-Z\s]{3,50}):?\s*$'
AllCapsHeader(s) ==
    LET r == RunLen(s, 1, UpperChars \cup Whitespace)
    IN  r >= 3 /\ r <= 50 /\ ColonTail(s, 1 + r)

\* r'^\d+\.\s+([A-Za-z\s]{3,50}):?\s*$' : the group may take over part of
\* the whitespace after the dot
NumberedHeader(s) ==
    LET d == RunLen(s, 1, Digits)
        lead == RunLen(s, d + 2, Whitespace)
        run == RunLen(s, d + 2, LetterOrSpace)
    IN  /\ d >= 1
        /\ d + 1 <= Len(s) /\ Ch(s, d + 1) = "."
        /\ \E w \in 1..lead : run - w >= 3 /\ run - w <= 50
        /\ ColonTail(s, d + 2 + run)

\* r'^([A-Za-z\s]{3,50})\s*-\s*' at the start of s
DashHeader(s) ==
    LET run == RunLen(s, 1, LetterOrSpace)
    IN  /\ run >= 3
        /\ run + 1 <= Len(s) /\ Ch(s, run + 1) = "-"
        /\ \A j \in 51..run : Ch(s, j) \in Whitespace

\* r'^\*\*([A-Za-z\s]{3,50})\*\*' at the start of s
BoldHeader(s) ==
    LET run == RunLen(s, 3, LetterOrSpace)
    IN  /\ StartsWith(s, 1, "**")
        /\ run >= 3 /\ run <= 50
        /\ StartsWith(s, 3 + run, "**")

\* str.isupper: a cased character, and no lowercase one
IsUpper(s) ==
    /\ \E j \in 1..Len(s) : Ch(s, j) \in UpperChars
    /\ \A j \in 1..Len(s) : Ch(s, j) \notin LowerChars

\* str.istitle: a cased character, every uppercase one after an uncased
\* character or at the start, every lowercase one after a cased character
IsTitle(s) ==
    /\ \E j \in 1..Len(s) : Ch(s, j) \in Letters
    /\ \A j \in 1..Len(s) :
          LET after_cased == j > 1 /\ Ch(s, j - 1) \in Letters
          IN  /\ Ch(s, j) \in UpperChars => ~after_cased
              /\ Ch(s, j) \in LowerChars => after_cased

EndsWith(s, w) ==
    Len(s) >= Len(w) /\ SubSeq(s, Len(s) - Len(w) + 1, Len(s)) = w

CountOf(s, c) == Cardinality({j \in 1..Len(s) : Ch(s, j) = c})

_is_section_header(raw) ==
    LET text == Strip(raw)
    IN  IF Len(text) < 3 \/ Len(text) > 100 THEN FALSE
        ELSE \/ TitleCaseHeader(text)
             \/ AllCapsHeader(text)
             \/ NumberedHeader(text)
             \/ DashHeader(text)
             \/ BoldHeader(text)
             \/ /\ IsUpper(text)
                /\ Len(SplitWords(text)) <= 8
                /\ ~EndsWith(text, ".")
                /\ CountOf(text, ":") = 0
             \/ /\ IsTitle(text)
                /\ Len(SplitWords(text)) <= 10
                /\ ~EndsWith(text, ".")
                /\ CountOf(text, ":") <= 1

\* the texts of the lines of a page, in order: line_text is the
\* concatenation of the spans, and blocks without lines are skipped
RECURSIVE LineTexts(_, _)
LineTexts(blocks, i) ==
    IF i > Len(blocks) THEN <<>>
    ELSE (IF "lines" \in DOMAIN blocks[i]
          THEN [k \in 1..Len(blocks[i].lines) |->
                   [text |-> Join(blocks[i].lines[k].spans, ""),
                    bbox |-> blocks[i].lines[k].bbox]]
          ELSE <<>>)
           \o LineTexts(blocks, i + 1)

\* one entry of pages_content
PageContent(page, page_num) ==
    LET kept == SelectSeq(LineTexts(page.blocks, 1),
                          LAMBDA l : Strip(l.text) # "")
        headers == SelectSeq(kept, LAMBDA l : _is_section_header(Strip(l.text)))
    IN  [page_number |-> page_num,
         text |-> Join([k \in 1..Len(kept) |-> Strip(kept[k].text) \o "\n"], ""),
         sections |-> [k \in 1..Len(headers) |->
                          [title |-> Strip(headers[k].text),
                           position |-> headers[k].bbox,
                           page |-> page_num]]]

RECURSIVE PagesContent(_, _)
PagesContent(pages, i) ==
    IF i > Len(pages) THEN <<>>
    ELSE <<PageContent(pages[i], i)>> \o PagesContent(pages, i + 1)

\* the dict returned when anything raised
EmptyContent == [total_pages |-> 0, pages |-> <<>>, full_text |-> ""]

\* a plausible slip: the pages read before the failure are returned
extract_text_keeping_pages(pdf) ==
    LET bad == {i \in 1..Len(pdf.pages) : ~pdf.pages[i].readable}
        upto == IF bad = {} THEN Len(pdf.pages)
                ELSE (CHOOSE i \in bad : \A k \in bad : i <= k) - 1
        pages_content == PagesContent(SubSeq(pdf.pages, 1, upto), 1)
    IN  [total_pages |-> Len(pages_content),
         pages |-> pages_content,
         full_text |-> Join([k \in 1..Len(pages_content) |->
                                pages_content[k].text], "\n")]

extract_text_and_structure(pdf) ==
    IF ~pdf.opens \/ \E i \in 1..Len(pdf.pages) : ~pdf.pages[i].readable
    THEN EmptyContent
    ELSE LET pages_content == PagesContent(pdf.pages, 1)
         IN  [total_pages |-> Len(pages_content),
              pages |-> pages_content,
              full_text |-> Join([k \in 1..Len(pages_content) |->
                                     pages_content[k].text], "\n")]

-----------------------------------------------------------------------------
(* RelevanceRanker                                                         *)
(* The sentence-embedding model and the TF-IDF vectorizer are              *)
(* collaborators: `oracle' holds what they return for a section content    *)
(* under the current query, and whether each of them worked at all.        *)

\* self.similarity_weights
similarity_weights ==
    [semantic |-> Rat(4, 10), tfidf |-> Rat(3, 10), keyword |-> Rat(2, 10),
     structural |-> Rat(1, 10)]

\* d[k] = v on a dict
SetKey(d, k, v) == [x \in DOMAIN d \cup {k} |-> IF x = k THEN v ELSE d[x]]

\* {kw.lower() for kw in xs}
LowerAll(xs) == {Lower(xs[i]) : i \in 1..Len(xs)}

\* set(re.findall(r'\b\w+\b', text)): the maximal runs of word characters
WordTokens(text) ==
    {SubSeq(text, i, i + RunLen(text, i, WordChars) - 1) :
        i \in {j \in 1..Len(text) :
                  /\ Ch(text, j) \in WordChars
                  /\ j = 1 \/ Ch(text, j - 1) \notin WordChars}}

\* section['content'] raises KeyError for a dict without that key
HasContent(sec) == "content" \in DOMAIN sec
AllHaveContent(secs) == \A i \in 1..Len(secs) : HasContent(secs[i])

\* a plausible slip: no fallback, the collaborator's answer whatever happened
_semantic_similarity_no_fallback(secs, orc) ==
    [i \in 1..Len(secs) |-> orc.semantic[secs[i].content]]

\* [0.5] * len(sections) when the model is missing or anything in the try
\* block raises, else the cosine similarities
_calculate_semantic_similarity(secs, orc) ==
    [i \in 1..Len(secs) |->
        IF orc.semantic_ok /\ AllHaveContent(secs)
        THEN orc.semantic[secs[i].content] ELSE Rat(1, 2)]

\* [0.5] * len(sections) when anything in the try block raises, else the
\* cosine similarities
_calculate_tfidf_similarity(secs, orc) ==
    [i \in 1..Len(secs) |->
        IF orc.tfidf_ok /\ AllHaveContent(secs)
        THEN orc.tfidf[secs[i].content] ELSE Rat(1, 2)]

\* the keyword set built at the head of _calculate_keyword_similarity
Keywords(persona_context) ==
    LowerAll(persona_context.domain_keywords)
      \cup LowerAll(persona_context.job_actions)
      \cup LowerAll(persona_context.priority_areas)
      \cup LowerAll(persona_context.requirements.dietary)
      \cup LowerAll(persona_context.requirements.special_needs)

\* a plausible slip: the density term without its cap at 1.0
KeywordSimilarityUncapped(content, keywords) ==
    LET section_text == Lower(content)
        section_words == WordTokens(section_text)
        union == keywords \cup section_words
        jaccard_sim ==
            IF union # {}
            THEN Rat(Cardinality(keywords \cap section_words), Cardinality(union))
            ELSE RZero
        keyword_count ==
            Cardinality({kw \in keywords : Contains(section_text, kw)})
        n_words == Len(SplitWords(section_text))
        keyword_density ==
            IF n_words > 0 THEN Rat(keyword_count, n_words) ELSE RZero
    IN  RAdd(RMul(jaccard_sim, Rat(7, 10)),
             RMul(RMul(keyword_density, Rat(10, 1)), Rat(3, 10)))

\* combined_sim of one section
KeywordSimilarity(content, keywords) ==
    LET section_text == Lower(content)
        section_words == WordTokens(section_text)
        union == keywords \cup section_words
        jaccard_sim ==
            IF union # {}
            THEN Rat(Cardinality(keywords \cap section_words), Cardinality(union))
            ELSE RZero
        keyword_count ==
            Cardinality({kw \in keywords : Contains(section_text, kw)})
        n_words == Len(SplitWords(section_text))
        keyword_density ==
            IF n_words > 0 THEN Rat(keyword_count, n_words) ELSE RZero
    IN  RAdd(RMul(jaccard_sim, Rat(7, 10)),
             RMul(RMin(RMul(keyword_density, Rat(10, 1)), ROne), Rat(3, 10)))

_calculate_keyword_similarity(secs, persona_context) ==
    LET keywords == Keywords(persona_context)
    IN  [i \in 1..Len(secs) |-> KeywordSimilarity(secs[i].content, keywords)]

info_indicators ==
    {"ingredients", "steps", "instructions", "how to", "recipe", "procedure",
     "method", "technique", "tip", "recommendation"}

\* re.search(r'\d+\.', content)
HasNumberDot(content) ==
    \E i \in 1..(Len(content) - 1) :
        Ch(content, i) \in Digits /\ Ch(content, i + 1) = "."

\* the score of one section in _calculate_structural_scores.  The first
\* bullet literal of the source is a three-character non-ASCII sequence,
\* which no text drawn here contains.
StructuralScore(content, persona_type) ==
    LET length == Len(content)
        lower == Lower(content)
        length_score == IF 200 <= length /\ length <= 1000 THEN Rat(3, 10)
                        ELSE IF 100 <= length /\ length <= 1500 THEN Rat(2, 10)
                        ELSE IF length > 50 THEN Rat(1, 10)
                        ELSE RZero
        colon_score == IF Contains(content, ":") THEN Rat(2, 10) ELSE RZero
        numbered_score == IF HasNumberDot(content) THEN Rat(2, 10) ELSE RZero
        bullet_score ==
            IF ContainsAny(content, {"-", "*"}) THEN Rat(15, 100) ELSE RZero
        info_count == Cardinality({w \in info_indicators : Contains(lower, w)})
        info_score == RMin(Rat(info_count * 5, 100), Rat(3, 10))
        persona_score ==
            IF \/ /\ persona_type = "contractor"
                  /\ ContainsAny(lower, {"recipe", "ingredients", "cooking"})
               \/ /\ persona_type = "planner"
                  /\ ContainsAny(lower, {"activity", "visit", "explore", "enjoy"})
               \/ /\ persona_type = "professional"
                  /\ ContainsAny(lower, {"form", "process", "step", "create"})
            THEN Rat(2, 10) ELSE RZero
    IN  RMin(RAdd(RAdd(RAdd(RAdd(RAdd(length_score, colon_score), numbered_score),
                            bullet_score), info_score), persona_score),
             ROne)

_calculate_structural_scores(secs, persona_context) ==
    [i \in 1..Len(secs) |->
        StructuralScore(secs[i].content, persona_context.persona_type)]

\* r ^ k
RECURSIVE RPow(_, _)
RPow(r, k) == IF k = 0 THEN ROne ELSE RMul(r, RPow(r, k - 1))

\* the product of the persona-specific multipliers
PersonaBoost(content, persona_context) ==
    LET persona_type == persona_context.persona_type
        dietary_reqs == persona_context.requirements.dietary
        When(cond, factor) == IF cond THEN factor ELSE ROne
    IN  IF persona_type = "contractor"
        THEN RMul(When(ContainsAny(content, {"recipe", "ingredients", "cooking",
                                             "preparation"}), Rat(13, 10)),
                  RPow(Rat(12, 10),
                       Cardinality({i \in 1..Len(dietary_reqs) :
                                       Contains(content, Lower(dietary_reqs[i]))})))
        ELSE IF persona_type = "planner"
        THEN RMul(When(ContainsAny(content, {"activity", "attraction", "visit",
                                             "explore", "destination"}),
                       Rat(13, 10)),
                  When(ContainsAny(content, {"group", "friends", "together",
                                             "party"}), Rat(12, 10)))
        ELSE IF persona_type = "professional"
        THEN RMul(When(ContainsAny(content, {"form", "process", "procedure",
                                             "workflow", "step"}), Rat(13, 10)),
                  When(ContainsAny(content, {"compliance", "professional",
                                             "business", "corporate"}),
                       Rat(12, 10)))
        ELSE ROne

\* a plausible slip: `elif' between the buffet and the vegetarian boosts
JobBoostEither(content, job) ==
    LET job_lower == Lower(job)
        When(cond, factor) == IF cond THEN factor ELSE ROne
    IN  RMul(RMul(IF Contains(job_lower, "buffet") /\ Contains(content, "buffet")
                  THEN Rat(13, 10)
                  ELSE When(Contains(job_lower, "vegetarian")
                              /\ Contains(content, "vegetarian"), Rat(13, 10)),
                  When(Contains(job_lower, "college")
                         /\ ContainsAny(content, {"budget", "affordable", "cheap",
                                                  "student"}), Rat(12, 10))),
             When(Contains(job_lower, "corporate")
                    /\ ContainsAny(content, {"professional", "business",
                                             "corporate"}), Rat(12, 10)))

\* the product of the job-specific multipliers
JobBoost(content, job) ==
    LET job_lower == Lower(job)
        When(cond, factor) == IF cond THEN factor ELSE ROne
    IN  RMul(RMul(RMul(When(Contains(job_lower, "buffet")
                              /\ Contains(content, "buffet"), Rat(13, 10)),
                       When(Contains(job_lower, "vegetarian")
                              /\ Contains(content, "vegetarian"), Rat(13, 10))),
                  When(Contains(job_lower, "college")
                         /\ ContainsAny(content, {"budget", "affordable", "cheap",
                                                  "student"}), Rat(12, 10))),
             When(Contains(job_lower, "corporate")
                    /\ ContainsAny(content, {"professional", "business",
                                             "corporate"}), Rat(12, 10)))

\* the title multiplier 1.0 + title_overlap * 0.1 (1 when there is no overlap)
TitleBoost(title, persona_context) ==
    LET title_words == Range(SplitWords(Lower(title)))
        title_overlap ==
            Cardinality(title_words \cap LowerAll(persona_context.domain_keywords))
    IN  Rat(10 + title_overlap, 10)

\* boosted_score just before the cap
BoostedScore(sec, base_score, persona_context, job) ==
    RMul(RMul(RMul(base_score,
                   PersonaBoost(Lower(sec.content), persona_context)),
              JobBoost(Lower(sec.content), job)),
         TitleBoost(sec.title, persona_context))

\* a plausible slip: the cap left out
_apply_persona_boosting_uncapped(sec, base_score, persona_context, job) ==
    BoostedScore(sec, base_score, persona_context, job)

_apply_persona_boosting(sec, base_score, persona_context, job) ==
    RMin(BoostedScore(sec, base_score, persona_context, job), Rat(2, 1))

\* combined_score of sections[i]
CombinedScore(secs, i, persona_context, orc) ==
    RAdd(RAdd(RAdd(RMul(_calculate_semantic_similarity(secs, orc)[i],
                        similarity_weights.semantic),
                   RMul(_calculate_tfidf_similarity(secs, orc)[i],
                        similarity_weights.tfidf)),
              RMul(_calculate_keyword_similarity(secs, persona_context)[i],
                   similarity_weights.keyword)),
         RMul(_calculate_structural_scores(secs, persona_context)[i],
              similarity_weights.structural))

\* final_scores after the first n sections of the loop
RECURSIVE FinalScoresUpTo(_, _, _, _, _)
FinalScoresUpTo(secs, n, persona_context, job, orc) ==
    IF n = 0 THEN <<>>
    ELSE Append(FinalScoresUpTo(secs, n - 1, persona_context, job, orc),
                _apply_persona_boosting(secs[n],
                                        CombinedScore(secs, n, persona_context, orc),
                                        persona_context, job))

\* final_scores
FinalScores(secs, persona_context, job, orc) ==
    FinalScoresUpTo(secs, Len(secs), persona_context, job, orc)

\* a plausible slip: the new score added to the one already stored
WriteScoreAccumulating(sec, score) ==
    SetKey(sec, "relevance_score",
           IF "relevance_score" \in DOMAIN sec
           THEN RAdd(sec.relevance_score, score) ELSE score)

\* section['relevance_score'] = boosted_score
WriteScore(sec, score) == SetKey(sec, "relevance_score", score)

\* the list `sections' as the loop leaves it: the same dicts in the same
\* order, each with its relevance_score written
ScoredSections(secs, final_scores) ==
    [i \in 1..Len(secs) |-> WriteScore(secs[i], final_scores[i])]

\* a plausible slip: among equal keys the later element first
RECURSIVE SortDescTiesReversed(_, _)
SortDescTiesReversed(seq, keys) ==
    IF Len(seq) = 0 THEN <<>>
    ELSE LET best == CHOOSE i \in 1..Len(seq) :
                        /\ \A j \in 1..Len(seq) : RLeq(keys[j], keys[i])
                        /\ \A j \in (i + 1)..Len(seq) : RLess(keys[j], keys[i])
         IN  <<seq[best]>>
               \o SortDescTiesReversed(Without(seq, best), Without(keys, best))

\* sorted(zip(sections, final_scores), key=lambda x: x[1], reverse=True)
SortedByFinalScore(scored, final_scores) == SortDescByKeys(scored, final_scores)

\* semantic_scores, tfidf_scores, keyword_scores and structural_scores
Signals(secs, persona_context, orc) ==
    [i \in 1..Len(secs) |->
        [semantic |-> _calculate_semantic_similarity(secs, orc)[i],
         tfidf |-> _calculate_tfidf_similarity(secs, orc)[i],
         keyword |-> _calculate_keyword_similarity(secs, persona_context)[i],
         structural |-> _calculate_structural_scores(secs, persona_context)[i]]]

\* a plausible slip: the input list sorted in place (sections.sort) instead
\* of a sorted copy
rank_sections_in_place(secs, persona_context, job, orc) ==
    IF Len(secs) = 0
    THEN [result |-> <<>>, sections |-> secs, signals |-> <<>>, raised |-> None]
    ELSE IF ~AllHaveContent(secs)
    THEN [result |-> <<>>, sections |-> secs, signals |-> <<>>,
          raised |-> Some("KeyError")]
    ELSE LET final_scores == FinalScores(secs, persona_context, job, orc)
             scored == ScoredSections(secs, final_scores)
         IN  [result |-> SortedByFinalScore(scored, final_scores),
              sections |-> SortedByFinalScore(scored, final_scores),
              signals |-> Signals(secs, persona_context, orc),
              raised |-> None]

\* rank_sections: `result' is the list returned, `sections' the input list
\* as the call leaves it, `signals' the four score lists it computed, and
\* `raised' the exception that left it.  The keyword and the structural
\* computation read section['content'] outside any try block.
rank_sections(secs, persona_context, job, orc) ==
    IF Len(secs) = 0
    THEN [result |-> <<>>, sections |-> secs, signals |-> <<>>, raised |-> None]
    ELSE IF ~AllHaveContent(secs)
    THEN [result |-> <<>>, sections |-> secs, signals |-> <<>>,
          raised |-> Some("KeyError")]
    ELSE LET final_scores == FinalScores(secs, persona_context, job, orc)
             scored == ScoredSections(secs, final_scores)
         IN  [result |-> SortedByFinalScore(scored, final_scores),
              sections |-> scored,
              signals |-> Signals(secs, persona_context, orc),
              raised |-> None]

-----------------------------------------------------------------------------
(* Values of the variables an operation under check does not use           *)

NoProfile == [persona_type |-> "unset"]
NoSection == [content |-> ""]
NoWeights == [instructional |-> RZero]

ProfilerIdle ==
    /\ persona = "" /\ job_task = "" /\ hash_seed = 0
    /\ persona_profile = NoProfile
SegmenterIdle == doc_content = <<>> /\ extracted = <<>>
DedupIdle == dedup_in = <<>> /\ deduped = <<>>
RankerIdle ==
    /\ sections = <<>> /\ oracle = <<>> /\ ranked = <<>>
    /\ signals = <<>> /\ raised = None
SplitterIdle ==
    section = NoSection /\ subsection_candidates = <<>> /\ subsections = <<>>
WeightsIdle == weights_in = <<>> /\ weights = NoWeights
RunsIdle == calls = <<>> /\ analyzer = <<>>
CollectionIdle ==
    /\ document_list = <<>> /\ processed_docs = <<>>
    /\ section_candidates = <<>> /\ ranked_sections = <<>>
    /\ top_sections = <<>> /\ output_data = None
BatchIdle ==
    /\ tool = "" /\ entries = <<>> /\ next_entry = 1
    /\ output_files = <<>> /\ error_log = <<>> /\ propagated = None
ChunkerIdle == chunk_args = <<>> /\ start = 0 /\ chunks = <<>>
RestIdle == RunsIdle /\ CollectionIdle /\ BatchIdle /\ ChunkerIdle

profilerVars == <<persona, job_task, hash_seed, persona_profile>>
segmenterVars == <<doc_content, extracted>>
dedupVars == <<dedup_in, deduped>>
rankerVars == <<sections, oracle, ranked, signals, raised>>
splitterVars == <<section, subsection_candidates, subsections>>
weightsVars == <<weights_in, weights>>
runsVars == <<calls, analyzer>>
collectionVars == <<document_list, processed_docs, section_candidates,
                    ranked_sections, top_sections, output_data>>
batchVars == <<tool, entries, next_entry, output_files, error_log, propagated>>
chunkerVars == <<chunk_args, start, chunks>>
restVars == <<runsVars, collectionVars, batchVars, chunkerVars>>

-----------------------------------------------------------------------------
(* create_persona_profile on bounded persona and job texts                 *)

FoodPersona == "Food Contractor"
FoodJob == "Prepare a vegetarian buffet menu for a corporate event of 50 people"

Personas ==
    {FoodPersona, "Travel Planner", "HR professional", "Chef", "Tour guide", "",
     "Research Analyst", "Literature expert", "Christmas chef"}

Jobs ==
    {FoodJob,
     "Plan a trip of 4 days for a group of 10 college friends.",
     "Create and manage fillable forms for onboarding and compliance.",
     "Review the vegan and gluten-free options for 12 guests",
     "Analyze revenue trends over 3 months",
     ""}

ProfilerInit ==
    /\ pc = "start"
    /\ persona \in Personas
    /\ job_task \in Jobs
    /\ hash_seed \in 0..(HashSeeds - 1)
    /\ persona_profile = NoProfile
    /\ SegmenterIdle /\ DedupIdle /\ RankerIdle /\ SplitterIdle /\ WeightsIdle
    /\ RestIdle

CreateProfile ==
    /\ pc = "start"
    /\ persona_profile' = create_persona_profile(persona, job_task, hash_seed)
    /\ pc' = "done"
    /\ UNCHANGED <<persona, job_task, hash_seed, segmenterVars, dedupVars,
                   rankerVars, splitterVars, weightsVars, restVars>>

ProfilerNext == CreateProfile

SpecProfiler == ProfilerInit /\ [][ProfilerNext]_vars

\* C8: for persona 'Food Contractor' and the vegetarian-buffet job for 50
\* people, the profile has persona_type 'contractor', 'vegetarian' among the
\* dietary requirements and group size 50.
C8_FoodContractorProfile ==
    (pc = "done" /\ persona = FoodPersona /\ job_task = FoodJob) =>
        /\ persona_profile.persona_type = "contractor"
        /\ "vegetarian" \in Range(persona_profile.requirements.dietary)
        /\ persona_profile.requirements.size = Some(50)

C8_Witness ==
    pc = "done" /\ persona = FoodPersona /\ job_task = FoodJob


\* C13: create_persona_profile tolerates an empty persona text and an empty
\* job text: an empty persona gives persona_type 'professional'; an empty
\* job gives job_actions exactly ['analyze'], no dietary requirement, no
\* special need, and size and duration None
C13_EmptyInputsFallToDefaults ==
    pc = "done" =>
        /\ persona = "" => persona_profile.persona_type = "professional"
        /\ job_task = "" =>
              /\ persona_profile.job_actions = <<"analyze">>
              /\ persona_profile.requirements.dietary = <<>>
              /\ persona_profile.requirements.special_needs = <<>>
              /\ persona_profile.requirements.size = None
              /\ persona_profile.requirements.duration = None

\* both texts empty, and a profile was returned
C13_Witness ==
    /\ pc = "done"
    /\ persona = ""
    /\ job_task = ""
    /\ persona_profile.persona_type = "professional"
    /\ persona_profile.job_actions = <<"analyze">>


--------------------------------------------------------------------------
(* create_persona_profile called twice, in one run of the program or in   *)
(* two: list(set(...)) iterates in the order of the string hashes, which  *)
(* are salted per process (PYTHONHASHSEED)                                *)

MaxCalls == 2

\* self.persona_keywords and self.job_actions as __init__ leaves them
AnalyzerTables ==
    [persona_keywords |-> [t \in Range(PersonaTypes) |-> persona_keywords(t)],
     job_actions |-> [a \in Range(ActionTypes) |-> job_actions(a)]]

RunsInit ==
    /\ pc = "start"
    /\ persona \in Personas
    /\ job_task \in Jobs
    /\ hash_seed \in 0..(HashSeeds - 1)
    /\ persona_profile = NoProfile
    /\ calls = <<>>
    /\ analyzer = AnalyzerTables
    /\ SegmenterIdle /\ DedupIdle /\ RankerIdle /\ SplitterIdle /\ WeightsIdle
    /\ CollectionIdle /\ BatchIdle /\ ChunkerIdle

\* persona_context = self.persona_analyzer.create_persona_profile(persona,
\* job_task); no statement of the call assigns to self or to a table
CallCreateProfile ==
    /\ pc \in {"start", "called"}
    /\ Len(calls) < MaxCalls
    /\ \E profile \in {create_persona_profile(persona, job_task, hash_seed)} :
          /\ persona_profile' = profile
          /\ calls' = Append(calls, [hash_seed |-> hash_seed, profile |-> profile])
    /\ pc' = "called"
    /\ UNCHANGED <<persona, job_task, hash_seed, analyzer, segmenterVars,
                   dedupVars, rankerVars, splitterVars, weightsVars,
                   collectionVars, batchVars, chunkerVars>>

\* the program ends and is started again: a new interpreter, a new salt,
\* a new PersonaAnalyzer
StartNewRun ==
    /\ pc = "called"
    /\ Len(calls) < MaxCalls
    /\ hash_seed' \in 0..(HashSeeds - 1)
    /\ analyzer' = AnalyzerTables
    /\ pc' = "start"
    /\ UNCHANGED <<persona, job_task, persona_profile, calls, segmenterVars,
                   dedupVars, rankerVars, splitterVars, weightsVars,
                   collectionVars, batchVars, chunkerVars>>

RunsNext == CallCreateProfile \/ StartNewRun

SpecRuns == RunsInit /\ [][RunsNext]_vars

\* C14: create_persona_profile is pure and deterministic: two calls with
\* the same persona and job text return equal profiles, with the same
\* element order in job_actions and priority_areas, and no call changes the
\* analyzer's tables
C14_SameInputsSameProfile ==
    /\ \A i, j \in 1..Len(calls) : calls[i].profile = calls[j].profile
    /\ analyzer = AnalyzerTables

\* what the code keeps: calls of one interpreter run agree, and the tables
\* stay as constructed
C14_SameRunSameProfile ==
    /\ \A i, j \in 1..Len(calls) :
          calls[i].hash_seed = calls[j].hash_seed
              => calls[i].profile = calls[j].profile
    /\ analyzer = AnalyzerTables

\* two runs gave the same job actions and priority areas in different orders
C14_OrderDiffers ==
    /\ Len(calls) = 2
    /\ persona = FoodPersona
    /\ job_task = FoodJob
    /\ calls[1].hash_seed # calls[2].hash_seed
    /\ Range(calls[1].profile.job_actions) = {"plan", "prepare"}
    /\ Range(calls[2].profile.job_actions) = {"plan", "prepare"}
    /\ calls[1].profile.job_actions # calls[2].profile.job_actions
    /\ Range(calls[1].profile.priority_areas)
          = Range(calls[2].profile.priority_areas)
    /\ calls[1].profile.priority_areas # calls[2].profile.priority_areas

-----------------------------------------------------------------------------
(* extract_subsections on bounded section bodies                           *)

\* Largest number of items in a generated section body.
MaxItems == 5

ShortItem == "First step"
StepsItem ==
    "Follow these steps to prepare the vegetarian buffet. Gather the ingredients and check quality. Serve within two hours."
DetailsItem ==
    "The service includes details of every dish! Is delivery on time? Corporate guests expect professional standards."

ItemTexts == {ShortItem, StepsItem, DetailsItem}

ItemSeqs(n) == [1..n -> ItemTexts]

\* decimal numeral of a small number
Numeral(k) ==
    IF k < 10 THEN Ch("0123456789", k + 1)
    ELSE Ch("0123456789", (k \div 10) + 1) \o Ch("0123456789", (k % 10) + 1)

BodyStyles == {"numbered", "bullet", "mixed", "plain"}

ItemPrefix(style, k) ==
    CASE style = "numbered" -> Numeral(k) \o ". "
      [] style = "bullet" -> "- "
      [] style = "mixed" -> IF k % 2 = 1 THEN Numeral(k) \o ". " ELSE "- "
      [] style = "plain" -> ""

\* the items, one per line with its list marker (plain: joined by spaces)
Body(style, items) ==
    Join([k \in 1..Len(items) |-> ItemPrefix(style, k) \o items[k]],
         IF style = "plain" THEN " " ELSE "\n")

ScenarioBody == "1. First step\n2. Second step\n3. Third step"

\* over 2000 characters in at most 10 sentences: one sentence end near the
\* middle, none within reach of the middle, and more than 10 sentences
LongBodyCut == Repeat("lorem ipsum ", 90) \o "dolor. " \o Repeat("sit amet ", 110)
LongBodyNoCut == Repeat("lorem ipsum ", 170) \o "dolor."
\* a sentence end 8 characters before the middle and one 95 after it
LongBodyCutBefore ==
    Repeat("lorem ipsum ", 85) \o "dolor. " \o Repeat("sit amet ", 10)
        \o "consectetur! " \o Repeat("sit amet ", 104)
IntroBody == "Overview:\n1. " \o StepsItem \o "\n2. " \o DetailsItem

SplitterBodies ==
    {Body(style, items) :
        style \in BodyStyles, items \in UNION {ItemSeqs(n) : n \in 1..MaxItems}}
      \cup {ScenarioBody, LongBodyCut, LongBodyNoCut, LongBodyCutBefore,
            IntroBody, ""}

SplitterProfiles ==
    {<<FoodPersona, FoodJob>>,
     <<"HR professional",
       "Create and manage fillable forms for onboarding and compliance.">>}

SplitterInit ==
    /\ pc = "start"
    /\ \E pj \in SplitterProfiles : persona = pj[1] /\ job_task = pj[2]
    /\ hash_seed = 0
    /\ persona_profile = create_persona_profile(persona, job_task, hash_seed)
    /\ \E body \in SplitterBodies :
          section = [document |-> "doc.pdf", content |-> body, page_number |-> 1]
    /\ subsection_candidates = <<>>
    /\ subsections = <<>>
    /\ SegmenterIdle /\ DedupIdle /\ RankerIdle /\ WeightsIdle
    /\ RestIdle

ExtractSubsections ==
    /\ pc = "start"
    /\ subsection_candidates' = _split_into_subsections(section.content)
    /\ subsections' = extract_subsections(section, persona_profile, job_task)
    /\ pc' = "done"
    /\ UNCHANGED <<section, profilerVars, segmenterVars, dedupVars, rankerVars,
                   weightsVars, restVars>>

SplitterNext == ExtractSubsections

SpecSplitter == SplitterInit /\ [][SplitterNext]_vars

\* candidates long enough to be scored
Eligible(cands) ==
    {i \in 1..Len(cands) : Len(Strip(cands[i])) >= min_subsection_length}

\* C6: extract_subsections returns at most 3 subsections for any parent
\* section, whichever splitting strategy applies and however many
\* candidates it yields.
C6_AtMostThreeSubsections ==
    pc = "done" => Len(subsections) <= 3

C6_Witness ==
    /\ pc = "done"
    /\ Cardinality(Eligible(subsection_candidates)) > 3
    /\ Len(subsections) = 3

HasNumberedMarker(content) == RegexSearch(numbered_pattern, content)
HasBulletMarker(content) == RegexSearch(bullet_pattern, content)

\* C10: a body with a newline-prefixed numbered-list marker is split by the
\* numbered-list strategy (at the numbered markers and nowhere else, so a
\* bullet marker stays inside its candidate and no sentence grouping or
\* bisection happens), and a body of three numbered items on separate lines
\* gives exactly 3 candidates: the first item with its "1. " and the other
\* two items' texts.
C10_NumberedStrategyFirst ==
    pc = "done" =>
        /\ HasNumberedMarker(section.content) =>
              /\ subsection_candidates
                    = StrippedNonEmpty(RegexSplit(numbered_pattern, section.content))
              /\ \A i \in 1..Len(subsection_candidates) :
                    ~HasNumberedMarker(subsection_candidates[i])
        /\ \A items \in ItemSeqs(3) :
              section.content = Body("numbered", items) =>
                  subsection_candidates
                      = <<"1. " \o items[1], items[2], items[3]>>
        /\ section.content = ScenarioBody =>
              subsection_candidates = <<"1. First step", "Second step", "Third step">>

C10_Witness ==
    /\ pc = "done"
    /\ section.content = Body("mixed", <<StepsItem, DetailsItem, StepsItem>>)
    /\ HasNumberedMarker(section.content)
    /\ HasBulletMarker(section.content)
    /\ Len(subsection_candidates) = 2


-----------------------------------------------------------------------------
(* extract_sections on bounded documents                                   *)

MaxBlocks == 2

IntroBlock == "Introduction\nThis chapter covers basics."
RecipeBlock ==
    "Recipes\nMix the flour with water and salt.\nKnead the dough for ten minutes.\n"
      \o "Let it rest for one hour.\nBake until golden brown."
BodyBlock ==
    "the buffet includes rice, beans and fresh bread for 50 people. "
      \o "how to serve: keep it warm."
ChorusBlock == "Chorus\n" \o Repeat("la ", 30)
AppendixBlock ==
    "Appendix\n" \o Repeat("x", 700) \o " " \o Repeat("y", 700) \o " "
      \o Repeat("z", 700)

ServingBlock ==
    "Serving notes\nHow to serve the buffet: keep every dish warm.\n"
      \o "What to bring and when: plates, cups and labels at noon.\n"
      \o "Where to park: behind the main hall, next to the delivery gate.\n"
      \o "Why it matters: the corporate guests include 50 people."

\* three paragraphs, the second and the third opened by a header-like line
TipsBlock ==
    "Kitchen tips\nRead them before the event.\n\n"
      \o "Storage\nKeep the bread in a dry place and the salad in the cold room.\n\n"
      \o "Freezing\nPut the cake in the freezer two days before the buffet opens."

\* a block of lines, and whether its first line reached the extractor as a
\* header candidate of its page
Blocks ==
    {[text |-> t, detected |-> d] :
        t \in {IntroBlock, RecipeBlock, ChorusBlock, AppendixBlock,
               ServingBlock},
        d \in BOOLEAN}
      \cup {[text |-> BodyBlock, detected |-> FALSE],
            [text |-> TipsBlock, detected |-> FALSE]}

\* what separates a block from the next one: a line break, a blank line, or
\* a page break
Gaps == {"\n", "\n\n", "page"}

\* the pages of the blocks[i..], `text' and `found' being the text and the
\* header candidates of the page under construction
RECURSIVE PagesFrom(_, _, _, _, _, _)
PagesFrom(blocks, gaps, i, text, found, n) ==
    LET block == blocks[i]
        title == SplitLines(block.text)[1]
        text2 == text \o block.text
        found2 == IF block.detected THEN Append(found, [title |-> title])
                  ELSE found
        page == [page_number |-> n, text |-> text2, sections |-> found2]
    IN  IF i = Len(blocks) THEN <<page>>
        ELSE IF gaps[i] = "page"
        THEN <<page>> \o PagesFrom(blocks, gaps, i + 1, "", <<>>, n + 1)
        ELSE PagesFrom(blocks, gaps, i + 1, text2 \o gaps[i], found2, n)

Documents ==
    {[pages |-> PagesFrom(blocks, gaps, 1, "", <<>>, 1)] :
        <<blocks, gaps>> \in UNION {[1..n -> Blocks] \X [1..(n - 1) -> Gaps] :
                                      n \in 1..MaxBlocks}}

SegmenterInit ==
    /\ pc = "start"
    /\ doc_content \in Documents
    /\ extracted = <<>>
    /\ ProfilerIdle /\ DedupIdle /\ RankerIdle /\ SplitterIdle /\ WeightsIdle
    /\ RestIdle

ExtractSections ==
    /\ pc = "start"
    /\ extracted' = extract_sections(doc_content, "doc.pdf")
    /\ pc' = "done"
    /\ UNCHANGED <<doc_content, profilerVars, dedupVars, rankerVars,
                   splitterVars, weightsVars, restVars>>

SegmenterNext == ExtractSections

SpecSegmenter == SegmenterInit /\ [][SegmenterNext]_vars

\* C1: every section returned by extract_sections, explicit or implicit, has
\* content whose stripped length is at least 50, whose length is at most
\* 2000, and whose distinct whitespace-separated words are at least 30% of
\* all its words.
C1_ReturnedSectionsValid ==
    pc = "done" =>
        \A i \in 1..Len(extracted) :
            LET content == extracted[i].content
                words == SplitWords(content)
            IN  /\ Len(Strip(content)) >= 50
                /\ Len(content) <= 2000
                /\ 10 * Cardinality(Range(words)) >= 3 * Len(words)

\* a document from which both an explicit and an implicit section are
\* returned
C1_Witness ==
    /\ pc = "done"
    /\ \E i, j \in 1..Len(extracted) :
          extracted[i].type = "explicit" /\ extracted[j].type = "implicit"


--------------------------------------------------------------------------
(* _extract_section_content on pages where a header-like line follows     *)
(* the section's title after 0 to 5 content lines                         *)

MaxContentLines == 5

ContentLinePool ==
    <<"Mix the flour with water and salt.", "Knead the dough for ten minutes.",
      "Let it rest for one hour.", "Bake until golden brown.",
      "Serve it warm with butter.">>

PoolLine(i) == ContentLinePool[((i - 1) % Len(ContentLinePool)) + 1]

HeaderLikeLines == {"Serving notes", "NOTES", "2. Serve the bread"}

\* the detected title as the caller passes it, a page whose first line holds
\* it, k content lines (a blank line after the first when `blank'), then
\* `next' and one more content line
ContentPage(title, k, blank, next) ==
    [title |-> title,
     text |-> "Recipes\n"
                \o Join([i \in 1..k |->
                            PoolLine(i) \o (IF blank /\ i = 1 THEN "\n" ELSE "")],
                        "\n")
                \o (IF k > 0 THEN "\n" ELSE "")
                \o next \o "\nKeep the rest in a dry place."]

ContentPages ==
    {ContentPage(title, k, blank, next) :
        title \in {"Recipes", "RECIPES", "Recipe"},
        k \in 0..MaxContentLines, blank \in BOOLEAN,
        next \in HeaderLikeLines \cup {"Cool it on a rack."}}

ContentInit ==
    /\ pc = "start"
    /\ doc_content \in ContentPages
    /\ extracted = <<>>
    /\ ProfilerIdle /\ DedupIdle /\ RankerIdle /\ SplitterIdle /\ WeightsIdle
    /\ RestIdle

\* section_content = self._extract_section_content(page['text'],
\* section['title'], page_num)
ExtractSectionContent ==
    /\ pc = "start"
    /\ extracted' = <<_extract_section_content(doc_content.text,
                                               doc_content.title)>>
    /\ pc' = "done"
    /\ UNCHANGED <<doc_content, profilerVars, dedupVars, rankerVars,
                   splitterVars, weightsVars, restVars>>

ContentNext == ExtractSectionContent

SpecContent == ContentInit /\ [][ContentNext]_vars

\* the stripped lines after the title line up to the first header-like
\* line that has at least `enough' non-empty lines before it
LinesUntilHeaderAfter(page, enough) ==
    LET lines == SplitLines(page.text)
        stripped == [i \in 1..Len(lines) |-> Strip(lines[i])]
        before(j) == Cardinality({i \in 2..(j - 1) : stripped[i] # ""})
        stops == {j \in 2..Len(lines) :
                     _looks_like_header(stripped[j]) /\ before(j) >= enough}
        last == IF stops = {} THEN Len(lines)
                ELSE (CHOOSE j \in stops : \A k \in stops : j <= k) - 1
    IN  SelectNonEmpty(SubSeq(stripped, 2, last))

\* C18: the content of an explicit section stops at the first header-like
\* line met once at least 3 non-empty content lines are accumulated (so a
\* header-like line after exactly 3 content lines ends it); a header-like
\* line met earlier is content; without such a line it runs to the end of
\* the page
C18_StopsAtHeaderAfterThreeLines ==
    pc = "done" =>
        extracted = <<Join(LinesUntilHeaderAfter(doc_content, 3), " ")>>

\* what the code does: the header-like line must come after more than 3
\* content lines, that is after at least 4
C18_StopsAtHeaderAfterFourLines ==
    pc = "done" =>
        extracted = <<Join(LinesUntilHeaderAfter(doc_content, 4), " ")>>

\* a header-like line after exactly 3 content lines, and it is in the content
C18_HeaderAfterThreeLinesKept ==
    /\ pc = "done"
    /\ doc_content = ContentPage("Recipes", 3, FALSE, "Serving notes")
    /\ Contains(extracted[1], "Let it rest for one hour. Serving notes Keep")

--------------------------------------------------------------------------
(* _extract_implicit_sections on pages of up to three paragraphs          *)

MaxParagraphs == 3

ParagraphPool ==
    {BodyBlock,
     "Serving notes\nKeep the bread warm and serve it with butter, cheese and olives.",
     "Overview",
     "too short."}

ImplicitPages ==
    {[text |-> Join(ps, "\n\n")] :
        ps \in UNION {[1..n -> ParagraphPool] : n \in 1..MaxParagraphs}}

ImplicitInit ==
    /\ pc = "start"
    /\ doc_content \in ImplicitPages
    /\ extracted = <<>>
    /\ ProfilerIdle /\ DedupIdle /\ RankerIdle /\ SplitterIdle /\ WeightsIdle
    /\ RestIdle

\* implicit_sections = self._extract_implicit_sections(page['text'],
\* page_num, filename)
ExtractImplicitSections ==
    /\ pc = "start"
    /\ extracted' = _extract_implicit_sections(doc_content.text, 1, "doc.pdf")
    /\ pc' = "done"
    /\ UNCHANGED <<doc_content, profilerVars, dedupVars, rankerVars,
                   splitterVars, weightsVars, restVars>>

ImplicitNext == ExtractImplicitSections

SpecImplicit == ImplicitInit /\ [][ImplicitNext]_vars

PageParagraphs(page) ==
    StrippedNonEmpty(RegexSplit(paragraph_break, page.text))

StartsWithHeader(paragraph) ==
    _looks_like_header(Strip(SplitLines(paragraph)[1]))

\* the paragraphs accumulated before a header-like paragraph opens the first
\* titled section: all of them when no paragraph does
FirstGroup(paragraphs) ==
    LET opens == {i \in 2..Len(paragraphs) : StartsWithHeader(paragraphs[i])}
        first == IF opens = {} THEN Len(paragraphs) + 1
                 ELSE CHOOSE i \in opens : \A k \in opens : i <= k
    IN  SubSeq(paragraphs, 1, first - 1)

Emitted(content) ==
    \E i \in 1..Len(extracted) :
        extracted[i].content = content /\ extracted[i].type = "implicit"

\* C19: the first accumulated group of paragraphs is emitted when valid,
\* like the last one, without a following header; so a page with valid
\* body text and no header-like paragraph yields an implicit section
C19_FirstGroupEmitted ==
    pc = "done" =>
        LET first == Join(FirstGroup(PageParagraphs(doc_content)), " ")
        IN  _is_valid_section(first) => Emitted(first)

\* what the code does: every emitted section carries the first line of a
\* header-like paragraph as its title, and a page without a header-like
\* paragraph after its first one yields nothing
C19_OnlyTitledGroupsEmitted ==
    pc = "done" =>
        LET paragraphs == PageParagraphs(doc_content)
        IN  /\ \A i \in 1..Len(extracted) :
                  \E k \in 2..Len(paragraphs) :
                      /\ StartsWithHeader(paragraphs[k])
                      /\ extracted[i].title = Strip(SplitLines(paragraphs[k])[1])
            /\ FirstGroup(paragraphs) = paragraphs => extracted = <<>>

\* a page that is one valid body paragraph, and nothing was emitted
C19_HeaderlessPageDropped ==
    /\ pc = "done"
    /\ doc_content.text = BodyBlock
    /\ _is_valid_section(BodyBlock)
    /\ ~_looks_like_header(BodyBlock)
    /\ extracted = <<>>

\* the last group is emitted when a header-like paragraph opened it
C19_LastGroupEmitted ==
    /\ pc = "done"
    /\ Len(PageParagraphs(doc_content)) = 2
    /\ Len(extracted) = 1
    /\ extracted[1].title = "Serving notes"

-----------------------------------------------------------------------------
(* _deduplicate_sections on bounded lists of sections                      *)

MaxSectionList == 3

DedupContents ==
    {"Mix the flour with water.", "mix  the flour\nwith water. ",
     "MIX THE FLOUR WITH WATER.", "Bake until golden brown."}

DedupSections ==
    {[document |-> "doc.pdf", title |-> "Recipes", content |-> c,
      page_number |-> 1, type |-> t] :
        c \in DedupContents, t \in {"explicit", "implicit"}}

DedupInit ==
    /\ pc = "start"
    /\ dedup_in \in UNION {[1..n -> DedupSections] : n \in 0..MaxSectionList}
    /\ deduped = <<>>
    /\ ProfilerIdle /\ SegmenterIdle /\ RankerIdle /\ SplitterIdle /\ WeightsIdle
    /\ RestIdle

\* _deduplicate_sections applied to the input list, then to its own result
Deduplicate ==
    /\ pc \in {"start", "again"}
    /\ deduped' = Append(deduped,
                         _deduplicate_sections(IF pc = "start" THEN dedup_in
                                               ELSE deduped[Len(deduped)]))
    /\ pc' = IF pc = "start" THEN "again" ELSE "done"
    /\ UNCHANGED <<dedup_in, profilerVars, segmenterVars, rankerVars,
                   splitterVars, weightsVars, restVars>>

DedupNext == Deduplicate

SpecDedup == DedupInit /\ [][DedupNext]_vars

\* C7: deduplication is idempotent: applying _deduplicate_sections to its own
\* result returns that result unchanged.
C7_DedupIdempotent ==
    Len(deduped) = 2 => deduped[2] = deduped[1]

\* a list with duplicates differing in case and whitespace, of which the
\* first pass removed some and kept at least two sections
C7_Witness ==
    /\ Len(deduped) = 2
    /\ Len(deduped[1]) < Len(dedup_in)
    /\ Len(deduped[1]) >= 2
    /\ \E i, j \in 1..Len(dedup_in) :
          /\ i < j
          /\ dedup_in[i].content # dedup_in[j].content
          /\ NormalizedContent(dedup_in[i].content)
               = NormalizedContent(dedup_in[j].content)

-----------------------------------------------------------------------------
(* The ranker: rank_sections called on a list of section candidates, then  *)
(* called again on the same list.                                          *)

MaxSections == 3

Candidate(title, content) ==
    [document |-> "doc.pdf", title |-> title, content |-> content,
     page_number |-> 1, type |-> "explicit"]

SectionLibrary ==
    <<Candidate("Vegetarian Recipe Ideas",
                "This vegetarian buffet recipe lists ingredients for 50 people."),
      Candidate("Venue",
                "The venue opens at nine and parking is behind the main hall."),
      Candidate("Parking",
                "The venue opens at nine and parking is behind the main hall."),
      Candidate("Coastal Activity",
                "Visit the old town with friends: 1. Nice 2. Cannes 3. Antibes"),
      Candidate("Onboarding Process",
                "Create a fillable form for onboarding - then check compliance.")>>

SectionLists ==
    UNION {[1..n -> Range(SectionLibrary)] : n \in 0..MaxSections}

RankerProfiles ==
    {<<FoodPersona, FoodJob>>,
     <<"Travel Planner",
       "Plan a trip of 4 days for a group of 10 college friends.">>,
     <<"HR professional",
       "Create and manage fillable forms for onboarding and compliance.">>}

\* similarities by content, given in the order of SectionLibrary
SimilarityTable(values) ==
    [c \in {SectionLibrary[i].content : i \in 1..Len(SectionLibrary)} |->
        values[CHOOSE i \in 1..Len(SectionLibrary) : SectionLibrary[i].content = c]]

AllOnes == [i \in 1..Len(SectionLibrary) |-> ROne]

\* what the two collaborators may answer: cosine similarities in [-1, 1]
\* (TF-IDF vectors have no negative entries, so in [0, 1] there), or a
\* failure
Oracles ==
    {[semantic_ok |-> FALSE, tfidf_ok |-> FALSE,
      semantic |-> SimilarityTable(AllOnes), tfidf |-> SimilarityTable(AllOnes)],
     [semantic_ok |-> TRUE, tfidf_ok |-> TRUE,
      semantic |-> SimilarityTable(AllOnes), tfidf |-> SimilarityTable(AllOnes)],
     [semantic_ok |-> TRUE, tfidf_ok |-> TRUE,
      semantic |-> SimilarityTable(<<Rat(3, 4), RZero, RZero, Rat(-1, 4),
                                     Rat(1, 2)>>),
      tfidf |-> SimilarityTable(<<Rat(1, 2), Rat(1, 4), Rat(1, 4), RZero,
                                  ROne>>)],
     [semantic_ok |-> TRUE, tfidf_ok |-> FALSE,
      semantic |-> SimilarityTable(<<Rat(-1, 2), Rat(1, 4), Rat(1, 4), ROne,
                                     RZero>>),
      tfidf |-> SimilarityTable(AllOnes)],
     [semantic_ok |-> FALSE, tfidf_ok |-> TRUE,
      semantic |-> SimilarityTable(AllOnes),
      tfidf |-> SimilarityTable(<<Rat(1, 4), RZero, RZero, Rat(3, 4),
                                  Rat(1, 2)>>)]}

RankerInit ==
    /\ pc = "start"
    /\ \E pj \in RankerProfiles :
          /\ persona = pj[1]
          /\ job_task = pj[2]
          /\ persona_profile = create_persona_profile(pj[1], pj[2], 0)
    /\ hash_seed = 0
    /\ sections \in SectionLists
    /\ oracle \in Oracles
    /\ ranked = <<>>
    /\ signals = <<>>
    /\ raised = None
    /\ SegmenterIdle /\ DedupIdle /\ SplitterIdle /\ WeightsIdle
    /\ RestIdle

\* ranked_sections = self.relevance_ranker.rank_sections(section_candidates,
\* persona_context, job_task): the result is kept, and the dicts of the
\* input list now carry their relevance_score
RankSections ==
    /\ pc = "start"
    /\ \E call \in {rank_sections(sections, persona_profile, job_task, oracle)} :
          /\ ranked' = IF call.raised = None THEN Append(ranked, call.result)
                       ELSE ranked
          /\ sections' = call.sections
          /\ signals' = call.signals
          /\ raised' = call.raised
    /\ pc' = "ranked"
    /\ UNCHANGED <<persona, job_task, hash_seed, persona_profile, oracle,
                   segmenterVars, dedupVars, splitterVars, weightsVars, restVars>>

\* the same call once more, on the same list
RankAgain ==
    /\ pc = "ranked"
    /\ \E call \in {rank_sections(sections, persona_profile, job_task, oracle)} :
          /\ ranked' = IF call.raised = None THEN Append(ranked, call.result)
                       ELSE ranked
          /\ sections' = call.sections
          /\ signals' = call.signals
          /\ raised' = call.raised
    /\ pc' = "done"
    /\ UNCHANGED <<persona, job_task, hash_seed, persona_profile, oracle,
                   segmenterVars, dedupVars, splitterVars, weightsVars, restVars>>

RankerNext == RankSections \/ RankAgain

SpecRanker == RankerInit /\ [][RankerNext]_vars

\* C2: whatever persona-type, job-term and title multipliers have
\* compounded, no section comes out of rank_sections with a relevance score
\* above 2.0.
C2_FinalScoreAtMostTwo ==
    \A k \in 1..Len(ranked) :
        \A i \in 1..Len(ranked[k]) :
            RLeq(ranked[k][i].relevance_score, Rat(2, 1))

\* a section whose boosted score went above 2.0 and came out as exactly 2.0
C2_Witness ==
    /\ pc = "ranked"
    /\ \E i \in 1..Len(sections) :
          /\ RLess(Rat(2, 1),
                   BoostedScore(sections[i],
                                CombinedScore(sections, i, persona_profile, oracle),
                                persona_profile, job_task))
          /\ sections[i].relevance_score = Rat(2, 1)

\* C3: the list rank_sections returns is the input list reordered so that
\* the final scores never increase, and sections with exactly equal final
\* scores stay in their input order.
C3_SortedStably ==
    pc # "start" =>
        LET result == ranked[Len(ranked)]
            n == Len(sections)
        IN  /\ Len(result) = n
            /\ \E perm \in [1..n -> 1..n] :
                  /\ \A k, l \in 1..n : k # l => perm[k] # perm[l]
                  /\ \A k \in 1..n : result[k] = sections[perm[k]]
                  /\ \A k, l \in 1..n :
                        k < l =>
                            /\ RLeq(result[l].relevance_score,
                                    result[k].relevance_score)
                            /\ result[l].relevance_score = result[k].relevance_score
                                 => perm[k] < perm[l]

\* three sections of which the last two tie, below the first in the result,
\* and differ (so their order shows), and the input order was not yet sorted
C3_Witness ==
    /\ pc = "ranked"
    /\ Len(sections) = 3
    /\ ranked[1][1] = sections[3]
    /\ ranked[1][2] = sections[1]
    /\ ranked[1][3] = sections[2]
    /\ sections[1] # sections[2]
    /\ sections[1].relevance_score = sections[2].relevance_score
    /\ RLess(sections[1].relevance_score, sections[3].relevance_score)

\* C4: a second rank_sections call on the same list, whose sections now
\* carry the scores of the first call, returns the same sections in the
\* same order with the same scores.
C4_SecondCallIdentical ==
    Len(ranked) = 2 => ranked[2] = ranked[1]

\* a second call over three sections with three different nonzero scores
C4_Witness ==
    /\ pc = "done"
    /\ Len(ranked[2]) = 3
    /\ \A i \in 1..3 : ranked[2][i].relevance_score # RZero
    /\ \A i, j \in 1..3 :
          i # j => ranked[2][i].relevance_score # ranked[2][j].relevance_score

\* both job terms in the job text and in the content of sections[i]
BothJobTerms(i) ==
    /\ Contains(Lower(job_task), "vegetarian")
    /\ Contains(Lower(job_task), "buffet")
    /\ Contains(Lower(sections[i].content), "vegetarian")
    /\ Contains(Lower(sections[i].content), "buffet")

\* the job-term multipliers other than those of the two words
OtherJobTerms(i) ==
    LET content == Lower(sections[i].content)
        job_lower == Lower(job_task)
    IN  RMul(IF Contains(job_lower, "college")
                  /\ ContainsAny(content, {"budget", "affordable", "cheap", "student"})
             THEN Rat(12, 10) ELSE ROne,
             IF Contains(job_lower, "corporate")
                  /\ ContainsAny(content, {"professional", "business", "corporate"})
             THEN Rat(12, 10) ELSE ROne)

\* C9: when the job text and a section's content both contain 'vegetarian'
\* and 'buffet', the section's score is its combined score times 1.3 times
\* 1.3, times the persona-type and title multipliers and the other job-term
\* multipliers, and the 2.0 cap applies to that product.
C9_TwoJobTermBoostsCompound ==
    pc # "start" =>
        \A i \in 1..Len(sections) :
            BothJobTerms(i) =>
                sections[i].relevance_score =
                    RMin(RMul(RMul(RMul(RMul(RMul(
                             CombinedScore(sections, i, persona_profile, oracle),
                             PersonaBoost(Lower(sections[i].content), persona_profile)),
                             Rat(13, 10)), Rat(13, 10)),
                             OtherJobTerms(i)),
                             TitleBoost(sections[i].title, persona_profile)),
                         Rat(2, 1))

\* such a section, with persona-type and title boosts too, ending below the
\* cap
C9_Witness ==
    /\ pc = "ranked"
    /\ \E i \in 1..Len(sections) :
          /\ BothJobTerms(i)
          /\ RLess(ROne, PersonaBoost(Lower(sections[i].content), persona_profile))
          /\ RLess(ROne, TitleBoost(sections[i].title, persona_profile))
          /\ RLess(RZero, sections[i].relevance_score)
          /\ RLess(sections[i].relevance_score, Rat(2, 1))


\* the last call returned every section of its input, each once
CompleteRanking ==
    /\ raised = None
    /\ ranked # <<>>
    /\ \E p \in [1..Len(sections) -> 1..Len(sections)] :
          /\ \A i, j \in 1..Len(sections) : i # j => p[i] # p[j]
          /\ ranked[Len(ranked)] = [i \in 1..Len(sections) |-> sections[p[i]]]

\* C11: when the embedding model is unavailable, the semantic signal of
\* every section is exactly 0.5 and rank_sections still returns a complete
\* ranking, without raising
C11_SemanticNeutralWithoutModel ==
    pc # "start" /\ ~oracle.semantic_ok =>
        /\ CompleteRanking
        /\ Len(signals) = Len(sections)
        /\ \A i \in 1..Len(signals) : signals[i].semantic = Rat(1, 2)

\* three sections ranked without the embedding model, by the other signals
C11_Witness ==
    /\ pc = "ranked"
    /\ ~oracle.semantic_ok
    /\ oracle.tfidf_ok
    /\ Len(ranked[1]) = 3
    /\ \A i \in 1..3 : signals[i].semantic = Rat(1, 2)
    /\ ranked[1][1].relevance_score # ranked[1][3].relevance_score


--------------------------------------------------------------------------
(* rank_sections called with a list in which a dict may lack its content *)

\* a section dict without the 'content' key
SectionWithoutContent ==
    [document |-> "doc.pdf", title |-> "Untitled", page_number |-> 1,
     type |-> "explicit"]

MaxFaultySections == 2

FaultySectionLists ==
    UNION {[1..n -> {SectionLibrary[1], SectionLibrary[4], SectionWithoutContent}] :
               n \in 0..MaxFaultySections}

FaultsInit ==
    /\ pc = "start"
    /\ \E pj \in RankerProfiles :
          /\ persona = pj[1]
          /\ job_task = pj[2]
          /\ persona_profile = create_persona_profile(pj[1], pj[2], 0)
    /\ hash_seed = 0
    /\ sections \in FaultySectionLists
    /\ oracle \in Oracles
    /\ ranked = <<>>
    /\ signals = <<>>
    /\ raised = None
    /\ SegmenterIdle /\ DedupIdle /\ SplitterIdle /\ WeightsIdle
    /\ RestIdle

SpecRankerFaults == FaultsInit /\ [][RankerNext]_vars

C12_CaughtFailuresAreNeutral ==
    pc # "start" /\ AllHaveContent(sections) =>
        /\ CompleteRanking
        /\ ~oracle.semantic_ok =>
              \A i \in 1..Len(signals) : signals[i].semantic = Rat(1, 2)
        /\ ~oracle.tfidf_ok =>
              \A i \in 1..Len(signals) : signals[i].tfidf = Rat(1, 2)

-----------------------------------------------------------------------------
(* The content-type weights, for every persona type and every non-empty    *)
(* set of job actions (_extract_job_actions never returns an empty list).  *)

WeightInputs ==
    {[persona_type |-> t, job_actions |-> ListOfSet(S, 0)] :
        t \in Range(PersonaTypes), S \in SUBSET Range(ActionTypes) \ {{}}}

WeightsInit ==
    /\ pc = "start"
    /\ weights_in \in WeightInputs
    /\ weights = NoWeights
    /\ ProfilerIdle /\ SegmenterIdle /\ DedupIdle /\ RankerIdle /\ SplitterIdle
    /\ RestIdle

\* 'context_weight': self._calculate_context_weights(persona_type, job_actions)
CalculateWeights ==
    /\ pc = "start"
    /\ weights' = FloatContextWeights(weights_in.persona_type,
                                      weights_in.job_actions)
    /\ pc' = "done"
    /\ UNCHANGED <<weights_in, profilerVars, segmenterVars, dedupVars,
                   rankerVars, splitterVars, restVars>>

WeightsNext == CalculateWeights

SpecWeights == WeightsInit /\ [][WeightsNext]_vars

AllWeightsPositive ==
    \A k \in DOMAIN weights : BigLess(Big(0, 0), weights[k].m)

\* C5 as stated: after normalization the four weights are each positive and
\* their sum, added up as the interpreter adds them, is exactly 1.0.
C5_WeightsSumExactlyOne ==
    pc = "done" => AllWeightsPositive /\ FloatSum(weights) = Float10

\* 1 - 2^-52 and 1 + 2^-52
NearOneBelow == Double(Big(2^23 - 1, LimbBase - 2), -53)
NearOneAbove == Double(Big(2^22, 1), -52)

\* C5, amended: after normalization the four weights are each positive and
\* their sum is 1.0 to within 2^-52.
C5_WeightsSumWithinTolerance ==
    pc = "done" =>
        /\ AllWeightsPositive
        /\ FloatLeq(NearOneBelow, FloatSum(weights))
        /\ FloatLeq(FloatSum(weights), NearOneAbove)

\* normalized weights of an adjusted profile whose sum is not 1.0
C5_Witness ==
    /\ pc = "done"
    /\ weights_in.persona_type = "researcher"
    /\ weights_in.job_actions = <<"create">>
    /\ FloatSum(weights) # Float10

--------------------------------------------------------------------------
(* process_collection (main.py) on collections of up to MaxDocuments       *)
(* documents                                                               *)

MaxDocuments == 2

\* ranked_sections[:5] and subsections[:5]
TopSectionCount == 5
TopSubsectionCount == 5

\* a plausible slip: every ranked section is kept
TopSectionsAll(ranked_list) == ranked_list

\* top_sections = ranked_sections[:5]
TopSections(ranked_list) == Take(ranked_list, TopSectionCount)

\* the loop over document_list[i..]: a file that exists is extracted and
\* appended, a missing one only logged
RECURSIVE ProcessDocuments(_, _)
ProcessDocuments(docs, i) ==
    IF i > Len(docs) THEN <<>>
    ELSE (IF docs[i].exists
          THEN <<[filename |-> docs[i].filename,
                  content |-> extract_text_and_structure(docs[i].pdf)]>>
          ELSE <<>>)
           \o ProcessDocuments(docs, i + 1)

\* the loop over processed_docs[i..] that fills section_candidates
RECURSIVE SectionCandidates(_, _)
SectionCandidates(docs, i) ==
    IF i > Len(docs) THEN <<>>
    ELSE extract_sections(docs[i].content, docs[i].filename)
           \o SectionCandidates(docs, i + 1)

\* the loop over top_sections[i..] that fills subsections
RECURSIVE SubsectionsOf(_, _, _, _)
SubsectionsOf(tops, i, persona_context, job) ==
    IF i > Len(tops) THEN <<>>
    ELSE extract_subsections(tops[i], persona_context, job)
           \o SubsectionsOf(tops, i + 1, persona_context, job)

\* output_data; the timestamp is the clock's
OutputData(docs, p, job, tops, subs) ==
    [metadata |->
         [input_documents |-> [i \in 1..Len(docs) |-> docs[i].filename],
          persona |-> p,
          job_to_be_done |-> job,
          processing_timestamp |-> "now"],
     extracted_sections |->
         [idx \in 1..Len(tops) |->
             [document |-> tops[idx].document,
              section_title |-> tops[idx].title,
              importance_rank |-> idx,
              page_number |-> tops[idx].page_number]],
     subsection_analysis |->
         [i \in 1..Min(TopSubsectionCount, Len(subs)) |->
             [document |-> subs[i].document,
              refined_text |-> subs[i].content,
              page_number |-> subs[i].page_number]]]

\* one line of one span, and a line whose text comes in two spans
Line(text, n) == [spans |-> <<text>>, bbox |-> n]
SplitLine(a, b, n) == [spans |-> <<a, b>>, bbox |-> n]

MenuPages ==
    <<[readable |-> TRUE,
       blocks |->
         <<[lines |-> <<SplitLine("Buffet ", "menu", 1),
                        Line("The vegetarian buffet menu serves 50 people.", 2),
                        Line("Prepare rice, beans and fresh bread.", 3),
                        Line("Add a salad with olive oil.", 4),
                        Line("Keep every dish warm.", 5)>>],
           [image |-> TRUE],
           [lines |-> <<Line("Serving notes", 6),
                        Line("Serve the buffet at noon in the main hall.", 7),
                        Line("Use labels for each vegetarian dish.", 8),
                        Line("Bring plates and cups for all guests.", 9),
                        Line("Clean the tables after the event.", 10),
                        Line("   ", 11),
                        Line("DESSERTS", 12),
                        Line("Offer fruit and a vegetarian cake to every guest at the end.", 13),
                        Line("Plan one dessert plate for each table of the corporate event.", 14)>>]>>]>>

GuidePages ==
    <<[readable |-> TRUE,
       blocks |->
         <<[lines |-> <<Line("Cooking guide", 1),
                        Line("Read each recipe first. Check every ingredient twice. Wash all vegetables well.", 2),
                        Line("Prepare the vegetarian dishes early. Taste the food often. Keep the quality high.", 3),
                        Line("Open the doors at noon. Greet the people kindly. Show them the way in.", 4),
                        Line("Thank them all at the end. Close the main hall at five. Lock the doors when you go.", 5)>>]>>],
      [readable |-> TRUE,
       blocks |->
         <<[lines |-> <<Line("Venue", 1),
                        Line("The venue opens at nine and parking is behind the main hall.", 2),
                        Line("Ask the service staff for the delivery gate and the quality check.", 3)>>]>>]>>

\* GuidePages with a second page the library cannot read
TornPages ==
    <<GuidePages[1], [readable |-> FALSE, blocks |-> GuidePages[2].blocks]>>

\* the entries a documents list is made of: two readable files, one that
\* does not open, one that fails on its second page, one that is not there
DocumentLibrary ==
    {[filename |-> "menu.pdf", exists |-> TRUE,
      pdf |-> [opens |-> TRUE, pages |-> MenuPages]],
     [filename |-> "guide.pdf", exists |-> TRUE,
      pdf |-> [opens |-> TRUE, pages |-> GuidePages]],
     [filename |-> "broken.pdf", exists |-> TRUE,
      pdf |-> [opens |-> FALSE, pages |-> MenuPages]],
     [filename |-> "torn.pdf", exists |-> TRUE,
      pdf |-> [opens |-> TRUE, pages |-> TornPages]],
     [filename |-> "missing.pdf", exists |-> FALSE,
      pdf |-> [opens |-> FALSE, pages |-> <<>>]]}

DocumentLists ==
    UNION {[1..n -> DocumentLibrary] : n \in 0..MaxDocuments}

CollectionProfiles ==
    {<<FoodPersona, FoodJob>>,
     <<"Travel Planner",
       "Plan a trip of 4 days for a group of 10 college friends.">>}

\* what the two collaborators may answer for these sections: both fail, or
\* each gives similarities in its range
OraclesFor(secs) ==
    LET contents == {secs[i].content : i \in 1..Len(secs)}
    IN  {[semantic_ok |-> FALSE, tfidf_ok |-> FALSE,
          semantic |-> [c \in contents |-> ROne],
          tfidf |-> [c \in contents |-> ROne]],
         [semantic_ok |-> TRUE, tfidf_ok |-> TRUE,
          semantic |-> [c \in contents |-> Rat((Len(c) % 4) - 1, 2)],
          tfidf |-> [c \in contents |-> Rat(Len(c) % 3, 2)]]}

CollectionInit ==
    /\ pc = "documents"
    /\ \E pj \in CollectionProfiles : persona = pj[1] /\ job_task = pj[2]
    /\ hash_seed = 0
    /\ persona_profile = NoProfile
    /\ document_list \in DocumentLists
    /\ processed_docs = <<>>
    /\ section_candidates = <<>>
    /\ ranked_sections = <<>>
    /\ top_sections = <<>>
    /\ subsections = <<>>
    /\ output_data = None
    /\ oracle = <<>>
    /\ raised = None
    /\ sections = <<>> /\ ranked = <<>> /\ signals = <<>>
    /\ section = NoSection /\ subsection_candidates = <<>>
    /\ SegmenterIdle /\ DedupIdle /\ WeightsIdle /\ RunsIdle /\ BatchIdle /\ ChunkerIdle

\* main.py 62-76: the loop over document_list
ProcessDocumentList ==
    /\ pc = "documents"
    /\ processed_docs' = ProcessDocuments(document_list, 1)
    /\ pc' = "persona"
    /\ UNCHANGED <<persona, job_task, hash_seed, persona_profile,
                   document_list, section_candidates, ranked_sections,
                   top_sections, output_data, segmenterVars, dedupVars,
                   rankerVars, splitterVars, weightsVars, runsVars, batchVars, chunkerVars>>

\* main.py 79
AnalyzePersona ==
    /\ pc = "persona"
    /\ persona_profile' = create_persona_profile(persona, job_task, hash_seed)
    /\ pc' = "sections"
    /\ UNCHANGED <<persona, job_task, hash_seed, collectionVars,
                   segmenterVars, dedupVars, rankerVars, splitterVars,
                   weightsVars, runsVars, batchVars, chunkerVars>>

\* main.py 82-88
ExtractCandidates ==
    /\ pc = "sections"
    /\ section_candidates' = SectionCandidates(processed_docs, 1)
    /\ pc' = "rank"
    /\ UNCHANGED <<persona, job_task, hash_seed, persona_profile,
                   document_list, processed_docs, ranked_sections,
                   top_sections, output_data, segmenterVars, dedupVars,
                   rankerVars, splitterVars, weightsVars, runsVars, batchVars, chunkerVars>>

\* main.py 91-98: rank_sections, which writes the scores into the dicts of
\* section_candidates, and the slice
RankCandidates ==
    /\ pc = "rank"
    /\ \E orc \in OraclesFor(section_candidates) :
          \E call \in {rank_sections(section_candidates, persona_profile,
                                     job_task, orc)} :
              /\ oracle' = orc
              /\ raised' = call.raised
              /\ section_candidates' = call.sections
              /\ ranked_sections' = call.result
              /\ top_sections' = TopSections(call.result)
    /\ pc' = "subsections"
    /\ UNCHANGED <<persona, job_task, hash_seed, persona_profile,
                   document_list, processed_docs, output_data, sections,
                   ranked, signals, segmenterVars, dedupVars, splitterVars,
                   weightsVars, runsVars, batchVars, chunkerVars>>

\* main.py 100-107
AnalyzeSubsections ==
    /\ pc = "subsections"
    /\ subsections' = SubsectionsOf(top_sections, 1, persona_profile, job_task)
    /\ pc' = "output"
    /\ UNCHANGED <<persona, job_task, hash_seed, persona_profile,
                   collectionVars, section, subsection_candidates,
                   segmenterVars, dedupVars, rankerVars, weightsVars,
                   runsVars, batchVars, chunkerVars>>

\* main.py 110-146
PrepareOutput ==
    /\ pc = "output"
    /\ output_data' = Some(OutputData(processed_docs, persona, job_task,
                                      top_sections, subsections))
    /\ pc' = "done"
    /\ UNCHANGED <<persona, job_task, hash_seed, persona_profile,
                   document_list, processed_docs, section_candidates,
                   ranked_sections, top_sections, segmenterVars, dedupVars,
                   rankerVars, splitterVars, weightsVars, runsVars, batchVars, chunkerVars>>

CollectionNext ==
    \/ ProcessDocumentList
    \/ AnalyzePersona
    \/ ExtractCandidates
    \/ RankCandidates
    \/ AnalyzeSubsections
    \/ PrepareOutput

SpecCollection == CollectionInit /\ [][CollectionNext]_vars

\* extraction of this document raises: the file does not open, or one of
\* its pages cannot be read
ExtractionFails(d) ==
    d.exists /\ (~d.pdf.opens \/ \E i \in 1..Len(d.pdf.pages) :
                                     ~d.pdf.pages[i].readable)

\* the output record of the same run on the documents docs
OutputFor(docs) ==
    LET processed == ProcessDocuments(docs, 1)
        tops == TopSections(
                    rank_sections(SectionCandidates(processed, 1),
                                  persona_profile, job_task, oracle).result)
    IN  OutputData(processed, persona, job_task, tops,
                   SubsectionsOf(tops, 1, persona_profile, job_task))

\* C15: a document whose extraction fails yields an empty page list and so
\* no section; the other documents are still extracted, segmented and
\* ranked, with the results they have when the failing document is not in
\* the collection at all
C15_FailedExtractionIsolated ==
    LET present == SelectSeq(document_list, LAMBDA d : d.exists)
        sound == SelectSeq(document_list,
                           LAMBDA d : d.exists /\ ~ExtractionFails(d))
    IN  /\ pc # "documents" =>
              /\ Len(processed_docs) = Len(present)
              /\ \A i \in 1..Len(present) :
                    /\ processed_docs[i].filename = present[i].filename
                    /\ ExtractionFails(present[i]) =>
                          /\ processed_docs[i].content.pages = <<>>
                          /\ extract_sections(processed_docs[i].content,
                                              present[i].filename) = <<>>
        /\ pc = "rank" =>
              section_candidates
                  = SectionCandidates(ProcessDocuments(sound, 1), 1)
        /\ pc \in {"subsections", "output", "done"} =>
              /\ raised = None
              /\ Len(ranked_sections) = Len(section_candidates)
        /\ pc = "done" =>
              /\ output_data[1].extracted_sections
                    = OutputFor(sound).extracted_sections
              /\ output_data[1].subsection_analysis
                    = OutputFor(sound).subsection_analysis

\* a file that fails on its second page, then a good one: the output has
\* the three sections of the good one
C15_Witness ==
    /\ pc = "done"
    /\ Len(document_list) = 2
    /\ document_list[1].filename = "torn.pdf"
    /\ document_list[2].filename = "menu.pdf"
    /\ processed_docs[1].content.pages = <<>>
    /\ Len(output_data[1].extracted_sections) = 3
    /\ \A i \in 1..3 :
          output_data[1].extracted_sections[i].document = "menu.pdf"

\* C17: the output lists min(5, number of ranked sections) section
\* summaries, in ranked order, with importance_rank 1, 2, ..., n, and at
\* most 5 subsection summaries; with no section extracted it lists none of
\* either, and process_collection completes all the same
C17_OutputListsTopFive ==
    /\ raised = None
    /\ pc = "done" =>
          LET out == output_data[1]
              n == Len(out.extracted_sections)
          IN  /\ n = Min(5, Len(ranked_sections))
              /\ \A i \in 1..n :
                    /\ out.extracted_sections[i].importance_rank = i
                    /\ out.extracted_sections[i].document
                          = ranked_sections[i].document
                    /\ out.extracted_sections[i].section_title
                          = ranked_sections[i].title
                    /\ out.extracted_sections[i].page_number
                          = ranked_sections[i].page_number
              /\ Len(out.subsection_analysis) <= 5
              /\ section_candidates = <<>> =>
                    n = 0 /\ Len(out.subsection_analysis) = 0

\* six ranked sections, five of them in the output
C17_Witness ==
    /\ pc = "done"
    /\ Len(ranked_sections) = 6
    /\ Len(output_data[1].extracted_sections) = 5
    /\ Len(output_data[1].subsection_analysis) = 5

\* C20: the subsection summaries of the output are the highest-scoring of
\* all subsections produced from the top sections: none of them scores
\* lower than a produced subsection that was left out
C20_OutputHasHighestScoringSubsections ==
    pc = "done" =>
        \A i \in 1..Len(output_data[1].subsection_analysis) :
            \A j \in (Len(output_data[1].subsection_analysis) + 1)
                        ..Len(subsections) :
                ~RLess(subsections[i].relevance_score,
                       subsections[j].relevance_score)

\* what the code does: the output holds the first five subsections in the
\* order of the sections they come from
C20_OutputIsFirstFiveInSectionOrder ==
    pc = "done" =>
        \A i \in 1..Len(output_data[1].subsection_analysis) :
            /\ output_data[1].subsection_analysis[i].refined_text
                  = subsections[i].content
            /\ \A j \in 1..(i - 1) :
                  \E a, b \in 1..Len(top_sections) :
                      /\ a <= b
                      /\ subsections[j].document = top_sections[a].document
                      /\ Contains(top_sections[a].content,
                                  SubSeq(subsections[j].content, 1, 20))
                      /\ subsections[i].document = top_sections[b].document
                      /\ Contains(top_sections[b].content,
                                  SubSeq(subsections[i].content, 1, 20))

\* six subsections produced, and the one left out scores higher than one
\* in the output
C20_HigherScoringOmitted ==
    /\ pc = "done"
    /\ Len(subsections) = 6
    /\ Len(output_data[1].subsection_analysis) = 5
    /\ \E i \in 1..5 :
          RLess(subsections[i].relevance_score,
                subsections[6].relevance_score)

-----------------------------------------------------------------------------
(* The batch loops: main and batch_process of the ranking pipeline, and    *)
(* process_pdfs_with_ml of the heading tool                                *)

MaxEntries == 3

\* process_collection(input_file, output_file) as the loops see it: the
\* exception that leaves it, or the output_data it saves to output_file as
\* its last step.  json.load raises on a file that is not JSON,
\* input_spec['challenge_info'] raises KeyError; the specs here list no
\* document, so the stages between run on empty lists.
process_collection(input_spec) ==
    IF ~input_spec.is_json
    THEN [raised |-> Some("JSONDecodeError"), saved |-> None]
    ELSE IF ~input_spec.challenge_info
    THEN [raised |-> Some("KeyError"), saved |-> None]
    ELSE [raised |-> None,
          saved |-> Some(OutputData(<<>>, input_spec.persona,
                                    input_spec.job, <<>>, <<>>))]

\* the loop body of main and of batch_process on one directory entry;
\* named is main's item.name.startswith("Collection"), TRUE in batch_process
CollectionEntry(e, named, files, log) ==
    IF e.is_dir /\ named /\ e.input # None
    THEN LET call == process_collection(e.input[1])
         IN  IF call.raised = None
             THEN [files |-> Append(files, [path |-> e.name,
                                            data |-> call.saved[1]]),
                   log |-> log, raised |-> None]
             ELSE [files |-> files,
                   log |-> Append(log, [name |-> e.name,
                                        error |-> call.raised[1]]),
                   raised |-> None]
    ELSE [files |-> files, log |-> log, raised |-> None]

\* filename.replace('.pdf', '.json'): every occurrence, left to right
RECURSIVE ReplacePdf(_, _)
ReplacePdf(s, i) ==
    IF i > Len(s) THEN ""
    ELSE IF StartsWith(s, i, ".pdf") THEN ".json" \o ReplacePdf(s, i + 4)
    ELSE SubSeq(s, i, i) \o ReplacePdf(s, i + 1)

\* write_output(data, output_path): open(output_path, 'w') raises OSError
\* when the path cannot be written
write_output(data, path, writable, files) ==
    IF writable
    THEN [files |-> Append(files, [path |-> path, data |-> data]),
          raised |-> None]
    ELSE [files |-> files, raised |-> Some("OSError")]

\* the loop body of process_pdfs_with_ml on one file name.  A PDF of no
\* text gives no feature: determine_title_ml returns "Unknown Title" and
\* the outline is [].
PdfEntry(e, files, log) ==
    IF ~EndsWith(e.name, ".pdf")
    THEN [files |-> files, log |-> log, raised |-> None]
    ELSE LET path == ReplacePdf(e.name, 1)
             try == IF e.opens
                    THEN write_output([title |-> "Unknown Title",
                                       outline |-> <<>>],
                                      path, e.writable, files)
                    ELSE [files |-> files, raised |-> Some("FileDataError")]
         IN  IF try.raised = None
             THEN [files |-> try.files, log |-> log, raised |-> None]
             ELSE LET handler ==
                          write_output([title |-> "Error processing "
                                                      \o e.name,
                                        outline |-> <<>>],
                                       path, e.writable, try.files)
                  IN  [files |-> handler.files,
                       log |-> Append(log, [name |-> e.name,
                                            error |-> try.raised[1]]),
                       raised |-> handler.raised]

InputSpec(json, info) ==
    [is_json |-> json, challenge_info |-> info,
     persona |-> "Food Contractor", job |-> "Prepare a buffet menu"]

\* what iterdir() can list in the collections directory
CollectionEntries ==
    {[name |-> "Collection 1", is_dir |-> TRUE,
      input |-> Some(InputSpec(TRUE, TRUE))],
     [name |-> "Collection 2", is_dir |-> TRUE,
      input |-> Some(InputSpec(TRUE, FALSE))],
     [name |-> "Collection 3", is_dir |-> TRUE,
      input |-> Some(InputSpec(FALSE, FALSE))],
     [name |-> "Collection 4", is_dir |-> TRUE, input |-> None],
     [name |-> "src", is_dir |-> TRUE,
      input |-> Some(InputSpec(TRUE, TRUE))],
     [name |-> "main.py", is_dir |-> FALSE, input |-> None]}

\* what listdir() can list in ./input: a PDF of no text, one that does not
\* open, two whose output path cannot be written, and a file that is no PDF
PdfEntries ==
    {[name |-> "blank.pdf", opens |-> TRUE, writable |-> TRUE],
     [name |-> "scan.pdf", opens |-> FALSE, writable |-> TRUE],
     [name |-> "locked.pdf", opens |-> TRUE, writable |-> FALSE],
     [name |-> "torn.pdf", opens |-> FALSE, writable |-> FALSE],
     [name |-> "notes.txt", opens |-> FALSE, writable |-> TRUE]}

\* the listings of up to MaxEntries distinct entries, in any order
Listings(pool) ==
    {l \in UNION {[1..n -> pool] : n \in 0..MaxEntries} :
        \A i, j \in 1..Len(l) : i # j => l[i] # l[j]}

BatchInit ==
    /\ pc = "loop"
    /\ ProfilerIdle /\ SegmenterIdle /\ DedupIdle /\ RankerIdle
    /\ SplitterIdle /\ WeightsIdle /\ RunsIdle /\ CollectionIdle
    /\ ChunkerIdle
    /\ tool \in {"main", "batch_process", "process_pdfs_with_ml"}
    /\ entries \in IF tool = "process_pdfs_with_ml"
                   THEN Listings(PdfEntries)
                   ELSE Listings(CollectionEntries)
    /\ next_entry = 1
    /\ output_files = <<>>
    /\ error_log = <<>>
    /\ propagated = None

BatchRest ==
    UNCHANGED <<profilerVars, segmenterVars, dedupVars, rankerVars,
                splitterVars, weightsVars, runsVars, collectionVars,
                chunkerVars, tool, entries>>

\* one iteration of a loop: an exception that leaves the body ends the loop
Iterate(step) ==
    /\ output_files' = step.files
    /\ error_log' = step.log
    /\ propagated' = step.raised
    /\ next_entry' = next_entry + 1
    /\ pc' = IF step.raised = None THEN "loop" ELSE "raised"
    /\ BatchRest

MainStep ==
    /\ pc = "loop" /\ tool = "main" /\ next_entry <= Len(entries)
    /\ Iterate(CollectionEntry(entries[next_entry],
                               StartsWith(entries[next_entry].name, 1,
                                          "Collection"),
                               output_files, error_log))

BatchProcessStep ==
    /\ pc = "loop" /\ tool = "batch_process" /\ next_entry <= Len(entries)
    /\ Iterate(CollectionEntry(entries[next_entry], TRUE,
                               output_files, error_log))

ProcessPdfsStep ==
    /\ pc = "loop" /\ tool = "process_pdfs_with_ml"
    /\ next_entry <= Len(entries)
    /\ Iterate(PdfEntry(entries[next_entry], output_files, error_log))

LoopEnd ==
    /\ pc = "loop" /\ next_entry > Len(entries)
    /\ pc' = "done"
    /\ UNCHANGED <<next_entry, output_files, error_log, propagated>>
    /\ BatchRest

BatchNext == MainStep \/ BatchProcessStep \/ ProcessPdfsStep \/ LoopEnd

SpecBatch == BatchInit /\ [][BatchNext]_vars

\* the entries a loop has taken, and those whose processing raised
Taken == {i \in 1..Len(entries) : i < next_entry}
Logged(i) == \E k \in 1..Len(error_log) : error_log[k].name = entries[i].name
OutputPath(i) ==
    IF tool = "process_pdfs_with_ml" THEN ReplacePdf(entries[i].name, 1)
    ELSE entries[i].name
HasOutput(i) ==
    \E k \in 1..Len(output_files) : output_files[k].path = OutputPath(i)

\* C16: when the processing of one item of a batch raises, the loop catches
\* it, writes a minimal valid output for that item and goes on to every
\* remaining item; no exception leaves the loop.  (Violated: main and
\* batch_process only log the error and write nothing for the collection;
\* in process_pdfs_with_ml the except branch writes to the same path, and
\* when that write fails the exception leaves the loop with entries left.)
C16_FailedItemGetsOutputAndLoopGoesOn ==
    /\ propagated = None
    /\ pc = "raised" => next_entry > Len(entries)
    /\ \A i \in Taken : Logged(i) => HasOutput(i)

\* what the loops do guarantee: main and batch_process never let an
\* exception out and take every entry; process_pdfs_with_ml writes the
\* error-annotated output for a failed PDF whose output path is writable,
\* and the only exception that leaves it is the one of its except branch
C16_CaughtAndLogged ==
    /\ tool # "process_pdfs_with_ml" =>
          /\ propagated = None
          /\ pc = "done" => Taken = 1..Len(entries)
          /\ \A i \in Taken : Logged(i) => ~HasOutput(i)
    /\ tool = "process_pdfs_with_ml" =>
          /\ \A i \in Taken :
                Logged(i) /\ entries[i].writable =>
                    \E k \in 1..Len(output_files) :
                        /\ output_files[k].path = OutputPath(i)
                        /\ output_files[k].data.outline = <<>>
                        /\ output_files[k].data.title =
                               "Error processing " \o entries[i].name
          /\ propagated # None =>
                /\ propagated = Some("OSError")
                /\ ~entries[next_entry - 1].writable

\* a collection raised, nothing was written for it, and the loop went on
\* to a later collection and wrote its output
C16_CollectionLeftWithoutOutput ==
    /\ tool = "main" /\ pc = "done"
    /\ \E i, j \in Taken :
          i < j /\ Logged(i) /\ ~HasOutput(i) /\ ~Logged(j) /\ HasOutput(j)

\* the heading tool's except branch raised and left entries untaken
C16_RaisedOutOfLoop ==
    /\ tool = "process_pdfs_with_ml" /\ pc = "raised"
    /\ propagated = Some("OSError")
    /\ next_entry <= Len(entries)

-----------------------------------------------------------------------------
(* extract_subsections: the split by length and the order of the result    *)

\* the bodies the fallback split applies to: no list marker, at most 10
\* sentences, longer than max_section_length
BisectCase(content) ==
    /\ ~HasNumberedMarker(content)
    /\ ~HasBulletMarker(content)
    /\ Len(RegexSplit(sentence_pattern, content)) <= 10
    /\ Len(content) > max_section_length

\* 0-based positions of the sentence terminators of content
Terminators(content) ==
    {i \in 0..(Len(content) - 1) : Ch(content, i + 1) \in SentenceEnd}

Distance(a, b) == IF a >= b THEN a - b ELSE b - a

\* the terminators nearest to the middle of content
NearestTerminators(content) ==
    {i \in Terminators(content) :
        \A j \in Terminators(content) :
            Distance(i, Len(content) \div 2) <= Distance(j, Len(content) \div 2)}

CutAt(content, i) ==
    <<Strip(SubSeq(content, 1, i + 1)),
      Strip(SubSeq(content, i + 2, Len(content)))>>

\* C21: a body with no numbered or bullet marker, at most 10 sentences and
\* more than 2000 characters is bisected once: exactly two non-empty parts,
\* cut at the sentence terminator nearest to the midpoint, never the whole
\* body as one subsection.  (Violated: the code looks only at the 100
\* characters from the midpoint on.)
C21_LongBodyBisectedAtNearestTerminator ==
    pc = "done" /\ BisectCase(section.content) =>
        /\ Len(subsection_candidates) = 2
        /\ subsection_candidates[1] # "" /\ subsection_candidates[2] # ""
        /\ \E i \in NearestTerminators(section.content) :
              subsection_candidates = CutAt(section.content, i)

\* what the code does: the cut is at the first terminator among the 100
\* characters from the midpoint on, and without one the body stays whole
C21_CutAtFirstTerminatorAfterMidpoint ==
    pc = "done" /\ BisectCase(section.content) =>
        LET content == section.content
            mid_point == Len(content) \div 2
            ahead == {i \in Terminators(content) :
                         mid_point <= i /\ i < mid_point + 100}
        IN  IF ahead = {} THEN subsection_candidates = <<content>>
            ELSE \E i \in ahead :
                    /\ \A j \in ahead : i <= j
                    /\ subsection_candidates = CutAt(content, i)

\* a body over 2000 characters came back as a single candidate
C21_LongBodyLeftWhole ==
    /\ pc = "done"
    /\ BisectCase(section.content)
    /\ Terminators(section.content) # {}
    /\ subsection_candidates = <<section.content>>

\* a body was cut at a terminator that is not the nearest to the midpoint
C21_CutAwayFromNearest ==
    /\ pc = "done"
    /\ BisectCase(section.content)
    /\ Len(subsection_candidates) = 2
    /\ \A i \in NearestTerminators(section.content) :
          subsection_candidates # CutAt(section.content, i)

\* the score extract_subsections gives to the i-th candidate of the split
CandidateScore(i) ==
    _score_subsection_relevance(subsection_candidates[i], persona_profile,
                                job_task)

REq(a, b) == RLeq(a, b) /\ RLeq(b, a)

\* the candidates (1-based) that the result holds
Returned ==
    {subsections[k].subsection_index + 1 : k \in 1..Len(subsections)}

\* C22: extract_subsections returns only candidates whose trimmed length is
\* at least 100, in non-increasing order of relevance score with equal-scored
\* candidates in their split order, and every eligible candidate left out
\* scores no higher than every candidate returned.
C22_TopSubsectionsInScoreOrder ==
    pc = "done" =>
        /\ \A k \in 1..Len(subsections) :
              LET i == subsections[k].subsection_index + 1
              IN  /\ i \in Eligible(subsection_candidates)
                  /\ subsections[k].content = Strip(subsection_candidates[i])
                  /\ Len(subsections[k].content) >= 100
                  /\ subsections[k].relevance_score = CandidateScore(i)
        /\ \A k \in 1..(Len(subsections) - 1) :
              /\ RLeq(subsections[k + 1].relevance_score,
                      subsections[k].relevance_score)
              /\ REq(subsections[k + 1].relevance_score,
                     subsections[k].relevance_score)
                    => subsections[k].subsection_index
                           < subsections[k + 1].subsection_index
        /\ \A i \in Eligible(subsection_candidates) \ Returned :
              \A k \in 1..Len(subsections) :
                  RLeq(CandidateScore(i), subsections[k].relevance_score)

\* three returned with a tie and a drop among them, a candidate too short to
\* be scored, and an eligible candidate left out
C22_Witness ==
    /\ pc = "done"
    /\ Len(subsections) = 3
    /\ \E k \in 1..2 : REq(subsections[k].relevance_score,
                           subsections[k + 1].relevance_score)
    /\ \E k \in 1..2 : RLess(subsections[k + 1].relevance_score,
                             subsections[k].relevance_score)
    /\ Eligible(subsection_candidates) \ Returned # {}
    /\ Eligible(subsection_candidates) # 1..Len(subsection_candidates)

-----------------------------------------------------------------------------
(* create_persona_profile: the domain keywords                             *)

\* C23: domain_keywords is the set union of the persona type's base keywords
\* and the task keyword sets the job text triggers: every keyword is in it
\* exactly once, so none counts twice in the subsection score.  (Violated:
\* the lists are concatenated.)
C23_DomainKeywordsDistinct ==
    pc = "done" =>
        \A i, j \in 1..Len(persona_profile.domain_keywords) :
            i # j => persona_profile.domain_keywords[i]
                         # persona_profile.domain_keywords[j]

\* what the code does: the base keywords followed by the triggered task
\* keywords, every keyword of either list kept
C23_DomainKeywordsConcatenated ==
    pc = "done" =>
        \E n \in 0..Len(persona_profile.domain_keywords) :
            /\ SubSeq(persona_profile.domain_keywords, 1, n)
                  = persona_keywords(persona_profile.persona_type)
            /\ Len(persona_profile.domain_keywords) - n \in {0, 5, 10, 15, 20}

\* a contractor with a business task: 'service' is in the list twice
C23_KeywordTwice ==
    /\ pc = "done"
    /\ persona_profile.persona_type = "contractor"
    /\ Cardinality({i \in 1..Len(persona_profile.domain_keywords) :
                       persona_profile.domain_keywords[i] = "service"}) = 2

-----------------------------------------------------------------------------
(* _deduplicate_sections: what is kept                                     *)

\* the positions of dedup_in that hold the first section of their content
FirstOfContent ==
    SelectSeq([i \in 1..Len(dedup_in) |-> i],
              LAMBDA i : \A j \in 1..(i - 1) :
                            NormalizedContent(dedup_in[j].content)
                                # NormalizedContent(dedup_in[i].content))

\* C24: after the dedup step no two remaining sections have equal content
\* under lowercasing and whitespace normalization; of each group of
\* duplicates exactly the first-encountered section is kept (an explicit
\* section before the implicit one that follows it), the kept sections keep
\* their relative order, and sections whose normalized contents differ are
\* never merged.
C24_FirstOfEachContentKept ==
    Len(deduped) >= 1 =>
        LET out == deduped[1]
        IN  /\ \A i, j \in 1..Len(out) :
                  i # j => NormalizedContent(out[i].content)
                              # NormalizedContent(out[j].content)
            /\ out = [k \in 1..Len(FirstOfContent) |-> dedup_in[FirstOfContent[k]]]
            /\ {NormalizedContent(out[i].content) : i \in 1..Len(out)}
                  = {NormalizedContent(dedup_in[i].content) :
                        i \in 1..Len(dedup_in)}

\* an explicit section, a different one, and an implicit duplicate of the
\* first that differs in case or spacing: the explicit one and the different
\* one are kept, in that order
C24_Witness ==
    /\ Len(deduped) >= 1
    /\ Len(dedup_in) = 3
    /\ dedup_in[1].type = "explicit" /\ dedup_in[3].type = "implicit"
    /\ dedup_in[1].content # dedup_in[3].content
    /\ NormalizedContent(dedup_in[1].content)
          = NormalizedContent(dedup_in[3].content)
    /\ NormalizedContent(dedup_in[2].content)
          # NormalizedContent(dedup_in[1].content)
    /\ deduped[1] = <<dedup_in[1], dedup_in[2]>>

-----------------------------------------------------------------------------
(* extract_sections: the order of the result                               *)

\* the deduplicated sections in encounter order: page by page, on a page
\* the explicit sections before the implicit ones
Encountered ==
    _deduplicate_sections(CollectSections(doc_content.pages, 1, "doc.pdf"))

EncounterIndex(sec) ==
    CHOOSE i \in 1..Len(Encountered) : Encountered[i] = sec

\* C25: extract_sections returns the deduplicated sections in non-increasing
\* order of the quality score, and sections of equal quality score stay in
\* their encounter order.
C25_QualityOrderStable ==
    pc = "done" =>
        /\ Len(extracted) = Len(Encountered)
        /\ Range(extracted) = Range(Encountered)
        /\ \A k \in 1..(Len(extracted) - 1) :
              /\ RLeq(quality_score(extracted[k + 1]),
                      quality_score(extracted[k]))
              /\ REq(quality_score(extracted[k + 1]),
                     quality_score(extracted[k]))
                    => EncounterIndex(extracted[k])
                           < EncounterIndex(extracted[k + 1])

\* the sort moved a later section to the front and left two sections of
\* equal quality in their encounter order
C25_Witness ==
    /\ pc = "done"
    /\ Len(extracted) >= 3
    /\ extracted # Encountered
    /\ \E k \in 1..(Len(extracted) - 1) :
          REq(quality_score(extracted[k + 1]), quality_score(extracted[k]))

-----------------------------------------------------------------------------
(* create_persona_profile: the persona type                                *)

\* the i-th category of the table matches the lowercased persona text: its
\* name or one of its first three keywords is a substring
CategoryMatches(i) ==
    \/ Contains(Lower(persona), PersonaTypes[i])
    \/ \E k \in 1..3 :
          Contains(Lower(persona), persona_keywords(PersonaTypes[i])[k])

\* C26: the resolved persona_type is always one of the seven table
\* categories: the first category in table order whose name or one of its
\* first three keywords is a substring of the lowercased persona text; if
\* none matches, the domain-hint fallback (HR terms to professional, food
\* terms to contractor, travel terms to planner); failing that,
\* 'professional'.
C26_PersonaTypeResolved ==
    pc = "done" =>
        LET t == persona_profile.persona_type
            p == Lower(persona)
        IN  /\ t \in Range(PersonaTypes)
            /\ \A i \in 1..Len(PersonaTypes) :
                  CategoryMatches(i) /\ (\A j \in 1..(i - 1) : ~CategoryMatches(j))
                      => t = PersonaTypes[i]
            /\ (\A i \in 1..Len(PersonaTypes) : ~CategoryMatches(i)) =>
                  t = IF \E w \in {"hr", "human", "resource"} : Contains(p, w)
                      THEN "professional"
                      ELSE IF \E w \in {"food", "chef", "cook", "menu"} :
                                 Contains(p, w)
                      THEN "contractor"
                      ELSE IF \E w \in {"travel", "trip", "tour"} : Contains(p, w)
                      THEN "planner"
                      ELSE "professional"

\* a persona that names a later keyword of a category only: no category
\* matches, no hint applies, and the type is the final fallback
C26_Witness ==
    /\ pc = "done"
    /\ persona = "Literature expert"
    /\ \A i \in 1..Len(PersonaTypes) : ~CategoryMatches(i)
    /\ persona_profile.persona_type = "professional"

\* two categories match and the earlier one in table order wins
C26_FirstCategoryWins ==
    /\ pc = "done"
    /\ Cardinality({i \in 1..Len(PersonaTypes) : CategoryMatches(i)}) >= 2
    /\ persona_profile.persona_type = "researcher"

\* the hints are tried in their order: 'hr' before 'chef'
C26_HintOrder ==
    /\ pc = "done"
    /\ persona = "Christmas chef"
    /\ persona_profile.persona_type = "professional"

-----------------------------------------------------------------------------
(* The keyword and the structural signal on the edges of their domain      *)

MaxSignalSections == 2

\* every additive bonus of the structural score applies to this content for
\* a contractor: 200 to 1000 characters, a colon, a numbered item, a dash,
\* six information indicators and a persona word
StructuredContent ==
    "Recipe: how to cook the buffet - ingredients, steps and instructions. "
      \o "1. Follow the procedure and the method of each recipe. "
      \o "2. Use the technique the tip describes. "
      \o "3. Read every recommendation before cooking the vegetarian dishes "
      \o "for the guests of the corporate event."

SignalContents ==
    {"", "   ", "recipe", "Service, delivery and quality.",
     "The venue opens at nine and parking is behind the main hall.",
     StructuredContent}

SignalSectionLists ==
    UNION {[1..n -> {Candidate("Notes", c) : c \in SignalContents}] :
              n \in 1..MaxSignalSections}

\* persona_context = {}: every persona_context.get(...) gives its default
EmptyContext ==
    [persona_type |-> "", domain_keywords |-> <<>>, job_actions |-> <<>>,
     priority_areas |-> <<>>,
     requirements |-> [dietary |-> <<>>, special_needs |-> <<>>]]

SignalsInit ==
    /\ pc = "start"
    /\ persona = "" /\ job_task = "" /\ hash_seed = 0
    /\ persona_profile \in
          {create_persona_profile(pj[1], pj[2], 0) : pj \in RankerProfiles}
            \cup {EmptyContext}
    /\ sections \in SignalSectionLists
    /\ oracle = <<>> /\ ranked = <<>> /\ signals = <<>> /\ raised = None
    /\ SegmenterIdle /\ DedupIdle /\ SplitterIdle /\ WeightsIdle
    /\ RestIdle

SignalsRest ==
    UNCHANGED <<profilerVars, segmenterVars, dedupVars, sections, oracle,
                ranked, raised, splitterVars, weightsVars, restVars>>

\* keyword_scores = self._calculate_keyword_similarity(sections, persona_context)
KeywordSignal ==
    /\ pc = "start"
    /\ signals' = [keyword |->
                      _calculate_keyword_similarity(sections, persona_profile)]
    /\ pc' = "keyword"
    /\ SignalsRest

\* structural_scores = self._calculate_structural_scores(sections, persona_context)
StructuralSignal ==
    /\ pc = "keyword"
    /\ signals' = [keyword |-> signals.keyword,
                   structural |->
                      _calculate_structural_scores(sections, persona_profile)]
    /\ pc' = "done"
    /\ SignalsRest

SignalsNext == KeywordSignal \/ StructuralSignal

SpecSignals == SignalsInit /\ [][SignalsNext]_vars

\* a quotient that was computed (no zero divisor) and lies in [0, 1]
InUnitInterval(r) == r.d > 0 /\ 0 <= r.n /\ r.n <= r.d

\* C27: for every section, also one with empty content and for an empty
\* keyword vocabulary, the keyword signal is computed without division by
\* zero and lies in [0, 1], and the structural signal lies in [0, 1]
\* however many of its bonuses apply.
C27_SignalsInUnitInterval ==
    /\ pc \in {"keyword", "done"} =>
          /\ Len(signals.keyword) = Len(sections)
          /\ \A i \in 1..Len(sections) :
                /\ InUnitInterval(signals.keyword[i])
                /\ Strip(sections[i].content) = "" => signals.keyword[i].n = 0
    /\ pc = "done" =>
          /\ Len(signals.structural) = Len(sections)
          /\ \A i \in 1..Len(sections) : InUnitInterval(signals.structural[i])

\* an empty section beside a section whose density term is capped and whose
\* structural score is capped at 1.0
C27_Witness ==
    /\ pc = "done"
    /\ \E i \in 1..Len(sections) : sections[i].content = ""
    /\ \E i \in 1..Len(sections) :
          /\ sections[i].content = StructuredContent
          /\ signals.structural[i] = ROne
          /\ RLess(ROne, RMul(Rat(10, 1),
                              Rat(Cardinality({kw \in Keywords(persona_profile) :
                                      Contains(Lower(StructuredContent), kw)}),
                                  Len(SplitWords(StructuredContent)))))

\* the empty vocabulary met the empty content: the union of the two word
\* sets is empty and the Jaccard term is the guarded 0
C27_EmptyUnion ==
    /\ pc = "done"
    /\ persona_profile = EmptyContext
    /\ \E i \in 1..Len(sections) :
          sections[i].content = "" /\ signals.keyword[i] = RZero

-----------------------------------------------------------------------------
(* rank_sections: what a call changes                                      *)

\* a section dict without its relevance_score
Unscored(sec) == [k \in DOMAIN sec \ {"relevance_score"} |-> sec[k]]

Arrangements(n) ==
    {f \in [1..n -> 1..n] : \A i, j \in 1..n : i # j => f[i] # f[j]}

\* the effect of one rank_sections call on the input list and on the list
\* of results
CallEffect ==
    pc \in {"start", "ranked"} =>
        LET result == ranked'[Len(ranked')]
            n == Len(sections)
        IN  /\ Len(ranked') = Len(ranked) + 1
            /\ Len(sections') = n
            /\ Len(result) = n
            /\ \A i \in 1..n :
                  /\ Unscored(sections'[i]) = Unscored(sections[i])
                  /\ "relevance_score" \in DOMAIN sections'[i]
            /\ \E f \in Arrangements(n) :
                  \A k \in 1..n : result[k] = sections'[f[k]]
            /\ \A k \in 1..(n - 1) :
                  RLeq(result[k + 1].relevance_score, result[k].relevance_score)

\* C28: rank_sections returns a permutation of its input: every input
\* section is in the result exactly once and nothing is added or dropped;
\* the order of the input list itself is unchanged, and the only change to a
\* section is its relevance_score, set to the final score by which it was
\* ordered.
C28_ResultIsPermutationOfInput == [][CallEffect]_vars

\* three sections, two of them with the same content, whose ranking put the
\* last one of the input first
C28_Witness ==
    /\ pc = "ranked"
    /\ Len(sections) = 3
    /\ ranked[1] # sections
    /\ ranked[1][1] = sections[3]
    /\ sections[1].content = sections[2].content

-----------------------------------------------------------------------------
(* rank_sections: boosting and the sign of the base score                  *)

\* the product of the multipliers that apply to sections[i]
BoostFactor(i) ==
    RMul(RMul(PersonaBoost(Lower(sections[i].content), persona_profile),
              JobBoost(Lower(sections[i].content), job_task)),
         TitleBoost(sections[i].title, persona_profile))

\* C29: boosting never lowers a score: the final score of every section is
\* at least min(base fused score, 2.0), for every value the four signals
\* can take, a negative semantic cosine similarity included.  (Violated: a
\* negative base score is multiplied by the boosts like any other.)
C29_BoostNeverLowers ==
    pc \in {"ranked", "done"} /\ raised = None =>
        \A i \in 1..Len(sections) :
            RLeq(RMin(CombinedScore(sections, i, persona_profile, oracle),
                      Rat(2, 1)),
                 sections[i].relevance_score)

\* what the code does guarantee: the final score is min(base * factor, 2.0)
\* with a factor of at least 1, so it is not below a base score that is not
\* negative
C29_BoostNeverLowersNonNegative ==
    pc \in {"ranked", "done"} /\ raised = None =>
        \A i \in 1..Len(sections) :
            LET base == CombinedScore(sections, i, persona_profile, oracle)
            IN  /\ RLeq(ROne, BoostFactor(i))
                /\ sections[i].relevance_score
                      = RMin(RMul(base, BoostFactor(i)), Rat(2, 1))
                /\ RLeq(RZero, base) =>
                      RLeq(RMin(base, Rat(2, 1)), sections[i].relevance_score)

\* a section with a negative base score and a boost cue came out below its
\* base score
C29_BoostLowered ==
    /\ pc = "ranked"
    /\ \E i \in 1..Len(sections) :
          /\ RLess(CombinedScore(sections, i, persona_profile, oracle), RZero)
          /\ RLess(ROne, BoostFactor(i))
          /\ RLess(sections[i].relevance_score,
                   CombinedScore(sections, i, persona_profile, oracle))

-----------------------------------------------------------------------------
(* DocumentProcessor.chunk_text, one loop iteration per step               *)

MaxTextLen == 6
MaxChunkSize == 5
\* the loop is followed until the list holds this many chunks
MaxChunks == 4

\* text[i] for a Python index i: a negative index counts from the end, an
\* index outside -len..len-1 raises IndexError
IndexOk(text, i) == -Len(text) <= i /\ i < Len(text)
PyAt(text, i) == IF i >= 0 THEN Ch(text, i + 1) ELSE Ch(text, Len(text) + i + 1)

\* text[a:b]: a negative bound counts from the end, both are clamped
SliceBound(text, x) ==
    IF x < 0 THEN Max(Len(text) + x, 0) ELSE Min(x, Len(text))
PySlice(text, a, b) ==
    SubSeq(text, SliceBound(text, a) + 1, SliceBound(text, b))

\* for i in range(end, start + chunk_size//2, -1) from index i down to
\* lo + 1: the first sentence terminator met, or IndexError
RECURSIVE ScanBack(_, _, _)
ScanBack(text, i, lo) ==
    IF i <= lo THEN [found |-> FALSE, raised |-> FALSE]
    ELSE IF ~IndexOk(text, i) THEN [found |-> FALSE, raised |-> TRUE]
    ELSE IF PyAt(text, i) \in SentenceEnd
    THEN [found |-> TRUE, raised |-> FALSE, at |-> i]
    ELSE ScanBack(text, i - 1, lo)

\* the body of the while loop from position s: the new end, the chunk
\* appended (if any), and whether text[i] raised
ChunkBody(text, chunk_size, overlap, s) ==
    LET end0 == s + chunk_size
        scan == IF end0 < Len(text)
                THEN ScanBack(text, end0, s + (chunk_size \div 2))
                ELSE [found |-> FALSE, raised |-> FALSE]
        end == IF scan.found THEN scan.at + 1 ELSE end0
        chunk == Strip(PySlice(text, s, end))
    IN  [raised |-> scan.raised,
         end |-> end,
         appended |-> IF chunk # ""
                      THEN <<[text |-> chunk, start_pos |-> s, end_pos |-> end,
                              length |-> Len(chunk)]>>
                      ELSE <<>>]

ChunkAlphabet == {"a", ".", " "}

\* the strings of length n over the alphabet
RECURSIVE TextsOfLen(_)
TextsOfLen(n) ==
    IF n = 0 THEN {""}
    ELSE {t \o c : t \in TextsOfLen(n - 1), c \in ChunkAlphabet}

ChunkTexts == UNION {TextsOfLen(n) : n \in 0..MaxTextLen}

\* the argument triples with 0 <= overlap < chunk_size
ChunkArgs ==
    {[text |-> t, chunk_size |-> c, overlap |-> o] :
        t \in ChunkTexts, c \in 1..MaxChunkSize, o \in 0..(MaxChunkSize - 1)}

ChunkerInit ==
    /\ pc = "loop"
    /\ chunk_args \in {a \in ChunkArgs : a.overlap < a.chunk_size}
    /\ start = 0
    /\ chunks = <<>>
    /\ ProfilerIdle /\ SegmenterIdle /\ DedupIdle /\ RankerIdle
    /\ SplitterIdle /\ WeightsIdle /\ RunsIdle /\ CollectionIdle /\ BatchIdle

ChunkerRest ==
    UNCHANGED <<profilerVars, segmenterVars, dedupVars, rankerVars,
                splitterVars, weightsVars, runsVars, collectionVars,
                batchVars, chunk_args>>

\* one iteration of `while start < len(text)'
ChunkStep ==
    /\ pc = "loop"
    /\ start < Len(chunk_args.text)
    /\ Len(chunks) < MaxChunks
    /\ \E body \in {ChunkBody(chunk_args.text, chunk_args.chunk_size,
                              chunk_args.overlap, start)} :
          IF body.raised
          THEN pc' = "raised" /\ UNCHANGED <<start, chunks>>
          ELSE /\ chunks' = chunks \o body.appended
               /\ start' = body.end - chunk_args.overlap
               /\ pc' = "loop"
    /\ ChunkerRest

\* return chunks
ChunkReturn ==
    /\ pc = "loop"
    /\ start >= Len(chunk_args.text)
    /\ pc' = "done"
    /\ UNCHANGED <<start, chunks>>
    /\ ChunkerRest

ChunkerNext == ChunkStep \/ ChunkReturn

SpecChunker == ChunkerInit /\ [][ChunkerNext]_vars

StartAdvances ==
    pc = "loop" /\ pc' = "loop" => start' > start

\* C30: chunk_text terminates for every text and every chunk_size, overlap
\* with 0 <= overlap < chunk_size: the chunk start strictly increases on
\* every loop iteration, also when the chunk end is pulled back to a
\* sentence boundary.  (Violated: a boundary just above the middle of the
\* window with a large overlap gives a start that does not advance.)
C30_StartStrictlyIncreases == [][StartAdvances]_vars

StartAdvancesUnderSmallOverlap ==
    pc = "loop" /\ pc' = "loop"
      /\ chunk_args.overlap <= (chunk_args.chunk_size \div 2) + 1
        => start' > start

\* what the code does guarantee: the start advances on every iteration when
\* overlap <= chunk_size // 2 + 1, as with the defaults 500 and 50
C30_StartIncreasesUnderSmallOverlap == [][StartAdvancesUnderSmallOverlap]_vars

\* the same chunk was cut twice from the same start: the loop does not end
C30_LoopRepeats ==
    /\ pc = "loop"
    /\ Len(chunks) >= 2
    /\ chunks[Len(chunks)] = chunks[Len(chunks) - 1]
    /\ start = chunks[Len(chunks)].start_pos
    /\ start < Len(chunk_args.text)

====
